---- MODULE Spec2Model ----
(***************************************************************************)
(* Model of the UNA_compta reports.                                        *)
(*                                                                         *)
(*   bilan.py              balance sheet: build_assets, build_liabilities, *)
(*                         build_p_l, sum_all_entries, construct_reports   *)
(*                         and the latex of its two sides                  *)
(*   suivie_budgetaire.py  budget tracking: compute_balance_sheet_list,    *)
(*                         scan_for_missing_accounts,                      *)
(*                         get_balance_sheet_as_list, get_balance_sheet    *)
(*   una_canonical.py      conversion of an EBP export: get_data, main     *)
(*   budget_comparatif.py  comparison of two budgets: compare_budget_lists *)
(*   a_nouveaux.py         opening balances: get_result, get_balances,     *)
(*                         generate_qif                                    *)
(*   ffa_qif.py, ha_qif.py QIF of FFA and Helloasso downloads: make_qif,   *)
(*                         find_account                                    *)
(*                                                                         *)
(* Account names are strings in the code; here a name is the sequence of   *)
(* its characters, each a digit 0..9.  Amounts are exact decimals in       *)
(* bilan.py (piecash returns Decimal); here an amount is an integer        *)
(* counting ten-thousandths, so that 0.10 is 1000, 100.00 is 1000000 and   *)
(* the sentinel -3.1415 of add_entry_assets is -31415.                     *)
(***************************************************************************)
EXTENDS Integers, Sequences, FiniteSets, TLC

VARIABLES
    accounts,       \* bilan: the dict of get_account_balances, in iteration order
    idx,            \* bilan: number of items of accounts the loop has processed
    sheet,          \* bilan: the sheet dict of construct_reports
    pc,             \* bilan: position in construct_reports
    assets_latex,   \* bilan: the lines build_assets_latex returned
    liabilities_latex, \* bilan: the lines build_liabilities_latex returned
    balances,       \* budget: the dict account -> balance
    config,         \* budget: the evaluated config, <<expenses lines, income lines>>
    expenses,       \* budget: the expenses column computed from config[0]
    income,         \* budget: the income column computed from config[1]
    imbalance,      \* budget: the 'Unexpected imbalance' warning was printed
    missing,        \* budget: the accounts printed as missing from config
    balance_sheet,  \* budget: the value get_balance_sheet returns
    bpc,            \* budget: position in get_balance_sheet
    book_file,      \* canonical: the file args.book
    book,           \* canonical: the value get_data returned
    out_file,       \* canonical: the file args.out
    cpc,            \* canonical: position in main
    config_1_column, \* comparatif: the column of the first budget
    config_2_column, \* comparatif: the column of the second budget
    additions,      \* comparatif: label of budget 1 -> label of budget 2 to put after it
    out_labels,     \* comparatif: the labels of the output, in order
    for_index,      \* comparatif: the value the for loop gave label_index last
    label_index,    \* comparatif: label_index, as the while loop moves it
    label,          \* comparatif: the label the while loop tests
    compared,       \* comparatif: the list compare_budget_lists returned
    kpc,            \* comparatif: position in compare_budget_lists
    gnucash,        \* a_nouveaux: the accounts of the book, name -> children, balance
    account_balances, \* a_nouveaux: the dict of get_balances, in insertion order
    ha_config,      \* ha_qif: the mapping from descriptions to accounts
    data,           \* ffa_qif, ha_qif: the rows of the download
    data_view,      \* ffa_qif, ha_qif: the rows get_data returned
    row_index,      \* ha_qif: number of rows that have their account
    qif,            \* the lines of the QIF written or printed
    qpc,            \* a_nouveaux, ffa_qif, ha_qif: position in main
    stdout          \* what the running script has printed

vars == <<accounts, idx, sheet, pc, assets_latex, liabilities_latex,
          balances, config, expenses, income, imbalance, missing,
          balance_sheet, bpc, book_file, book, out_file, cpc,
          config_1_column, config_2_column, additions, out_labels, for_index,
          label_index, label, compared, kpc,
          gnucash, account_balances, ha_config, data, data_view, row_index,
          qif, qpc, stdout>>

bilanVars == <<accounts, idx, sheet, pc, assets_latex, liabilities_latex>>
budgetVars == <<balances, config, expenses, income, imbalance, missing,
                balance_sheet, bpc>>
canonicalVars == <<book_file, book, out_file, cpc>>
compareVars == <<config_1_column, config_2_column, additions, out_labels,
                 for_index, label_index, label, compared, kpc>>
qifVars == <<gnucash, account_balances, ha_config, data, data_view, row_index,
             qif, qpc>>

-----------------------------------------------------------------------------
(* Bounds of the model.                                                    *)

\* account codes 1..MaxCode are classified one at a time
MaxCode == 9999
\* number of accounts of a ledger snapshot given to construct_reports
MaxAccounts == 2

-----------------------------------------------------------------------------
(* Strings and numbers.                                                    *)

Min(a, b) == IF a < b THEN a ELSE b

\* str(n) of a positive int: its decimal digits
RECURSIVE Str(_)
Str(n) == IF n < 10 THEN <<n>> ELSE Append(Str(n \div 10), n % 10)

\* s[:k] of a Python string (k >= 0): at most the first k characters
Slice(s, k) == SubSeq(s, 1, Min(k, Len(s)))

\* sum of the second components of a list of (account_name, balance) tuples
RECURSIVE SumBalances(_)
SumBalances(entries) ==
    IF entries = <<>> THEN 0
    ELSE entries[1][2] + SumBalances(Tail(entries))

\* a test of the first character alone
StartsWithFirstOf(account_name, prefix) ==
    Slice(account_name, 1) = Slice(Str(prefix), 1)

\* 'account_name[:len(str(prefix))] == str(prefix)'
StartsWith(account_name, prefix) ==
    Slice(account_name, Len(Str(prefix))) = Str(prefix)

-----------------------------------------------------------------------------
(* bilan.py: the sheet.                                                    *)

\* the float -3.1415 of add_entry_assets, in ten-thousandths
PiUnset == -31415

add_entry_assets(s, column, key, account_name, balance) ==
    LET s1 == IF key \in DOMAIN s THEN s
              ELSE s @@ (key :> [brute |-> [entries |-> <<>>, balance |-> PiUnset],
                                 amort |-> [entries |-> <<>>, balance |-> PiUnset]])
    IN  [s1 EXCEPT ![key][column].entries = Append(@, <<account_name, balance>>)]

add_to_assets(s, prefix, column, key, account_name, balance) ==
    IF StartsWith(account_name, prefix)
    THEN add_entry_assets(s, column, key, account_name, balance)
    ELSE s

\* add_entry keeping the last entry of the group alone
add_entry_replacing(s, key, account_name, balance) ==
    LET s1 == IF key \in DOMAIN s THEN s
              ELSE s @@ (key :> [entries |-> <<>>, balance |-> 0])
    IN  [s1 EXCEPT ![key].entries = << <<account_name, balance>> >>]

add_entry(s, key, account_name, balance) ==
    LET s1 == IF key \in DOMAIN s THEN s
              ELSE s @@ (key :> [entries |-> <<>>, balance |-> 0])
    IN  [s1 EXCEPT ![key].entries = Append(@, <<account_name, balance>>)]

add_to_sheet(s, prefix, key, account_name, balance) ==
    IF StartsWith(account_name, prefix)
    THEN add_entry(s, key, account_name, balance)
    ELSE s

\* sum_entries adding to the balance the group was created with
sum_entries_onto_balance(entries_group) ==
    [entries_group EXCEPT !.balance = @ + SumBalances(entries_group.entries)]

sum_entries(entries_group) ==
    [entries_group EXCEPT !.balance = SumBalances(entries_group.entries)]

\* sum_all_entries leaving alone a column of an asset group with no entry
sum_all_entries_of_filled(s) ==
    [key \in DOMAIN s |->
        IF "entries" \in DOMAIN s[key]
        THEN sum_entries(s[key])
        ELSE [s[key] EXCEPT
                !.brute = IF @.entries = << >> THEN @ ELSE sum_entries(@),
                !.amort = IF @.entries = << >> THEN @ ELSE sum_entries(@)]]

sum_all_entries(s) ==
    [key \in DOMAIN s |->
        IF "entries" \in DOMAIN s[key]
        THEN sum_entries(s[key])
        ELSE [s[key] EXCEPT !.brute = sum_entries(@), !.amort = sum_entries(@)]]

-----------------------------------------------------------------------------
(* bilan.py: the classification rules.                                     *)

AssetRule(prefix, column, key) == [prefix |-> prefix, column |-> column, key |-> key]
SheetRule(prefix, key) == [prefix |-> prefix, key |-> key]

AddAssetRule(s, rule, account_name, balance) ==
    add_to_assets(s, rule.prefix, rule.column, rule.key, account_name, balance)

AddSheetRule(s, rule, account_name, balance) ==
    add_to_sheet(s, rule.prefix, rule.key, account_name, balance)

\* the calls add_to_assets(sheet, ...) of a list of rules, made one after the
\* other in the order of the list, each on the sheet the one before it left;
\* a call whose prefix does not match the name leaves the sheet as it is, so
\* only the calls of the matching rules are chained
ApplyAssetRules(s, rules, account_name, balance) ==
    LET matching == SelectSeq(rules, LAMBDA rule : StartsWith(account_name, rule.prefix))
        after[i \in 0..Len(matching)] ==
            IF i = 0 THEN s
            ELSE AddAssetRule(after[i - 1], matching[i], account_name, balance)
    IN  after[Len(matching)]

\* the same for the calls add_to_sheet(sheet, ...)
ApplySheetRules(s, rules, account_name, balance) ==
    LET matching == SelectSeq(rules, LAMBDA rule : StartsWith(account_name, rule.prefix))
        after[i \in 0..Len(matching)] ==
            IF i = 0 THEN s
            ELSE AddSheetRule(after[i - 1], matching[i], account_name, balance)
    IN  after[Len(matching)]

\* the calls of build_assets made for a balance of any sign, in order
AssetsAnySign ==
    << AssetRule(206, "brute", "immo_incorp__fonds_commercial"),
       AssetRule(207, "brute", "immo_incorp__fonds_commercial"),
       AssetRule(2906, "amort", "immo_incorp__fonds_commercial"),
       AssetRule(2909, "amort", "immo_incorp__fonds_commercial"),
       AssetRule(201, "brute", "immo_incorp__autres"),
       AssetRule(203, "brute", "immo_incorp__autres"),
       AssetRule(205, "brute", "immo_incorp__autres"),
       AssetRule(208, "brute", "immo_incorp__autres"),
       AssetRule(280, "amort", "immo_incorp__autres"),
       AssetRule(2905, "amort", "immo_incorp__autres"),
       AssetRule(2908, "amort", "immo_incorp__autres"),
       AssetRule(21, "brute", "immo_corp"),
       AssetRule(22, "brute", "immo_corp"),
       AssetRule(23, "brute", "immo_corp"),
       AssetRule(281, "amort", "immo_corp"),
       AssetRule(291, "amort", "immo_corp"),
       AssetRule(26, "brute", "immo_fin"),
       AssetRule(27, "brute", "immo_fin"),
       AssetRule(296, "amort", "immo_fin"),
       AssetRule(297, "amort", "immo_fin") >>
    \o [i \in 1..5 |-> AssetRule(30 + i, "brute", "stock_pas_marchandises")]
    \o [i \in 1..5 |-> AssetRule(390 + i, "amort", "stock_pas_marchandises")]
    \o
    << AssetRule(37, "brute", "stock_marchandises"),
       AssetRule(397, "amort", "stock_marchandises"),
       AssetRule(4091, "brute", "avances"),
       AssetRule(491, "amort", "creances_clients"),
       AssetRule(50, "brute", "mobil_placement"),
       AssetRule(590, "amort", "mobil_placement"),
       AssetRule(54, "brute", "disponibilite_non_caisse"),
       AssetRule(58, "brute", "disponibilite_non_caisse"),
       AssetRule(53, "brute", "caisse"),
       AssetRule(486, "brute", "charges_constates_avance"),
       AssetRule(496, "amort", "creances_autres") >>

\* the calls of build_assets made under 'if balance > 0', in order
AssetsPositive(account_name) ==
    << AssetRule(41, "brute", "creances_clients") >>
    \o (IF Slice(account_name, 4) # Str(4091)
        THEN << AssetRule(40, "brute", "creances_autres") >>
        ELSE << >>)
    \o
    << AssetRule(42, "brute", "creances_autres"),
       AssetRule(43, "brute", "creances_autres"),
       AssetRule(44, "brute", "creances_autres"),
       AssetRule(45, "brute", "creances_autres"),
       AssetRule(46, "brute", "creances_autres"),
       AssetRule(51, "brute", "disponibilite_non_caisse") >>

build_assets(s, account_name, balance) ==
    LET s1 == ApplyAssetRules(s, AssetsAnySign, account_name, balance)
    IN  IF balance > 0
        THEN ApplyAssetRules(s1, AssetsPositive(account_name),
                        account_name, balance)
        ELSE s1

\* the calls of build_liabilities made for a balance of any sign, in order
LiabilitiesAnySign ==
    << SheetRule(101, "capital"),
       SheetRule(108, "capital"),
       SheetRule(105, "ecarts_de_reevaluation"),
       SheetRule(1061, "reserves_legale"),
       SheetRule(1064, "reserves_reglementaire"),
       SheetRule(1063, "reserves_autre"),
       SheetRule(1068, "reserves_autre"),
       SheetRule(110, "report_a_nouveau"),
       SheetRule(119, "report_a_nouveau"),
       SheetRule(14, "provisions_relgementees"),
       SheetRule(15, "provisions"),
       SheetRule(16, "dettes_emprunts"),
       SheetRule(487, "produits_constates_avance") >>

\* the calls made under 'if balance < 0' with rule 41 applying to 4191 too
LiabilitiesNegativeWith41(account_name) ==
    << SheetRule(51, "dettes_emprunts"),
       SheetRule(4191, "dettes_avances"),
       SheetRule(40, "dettes_fournisseurs"),
       SheetRule(41, "dettes_autres"),
       SheetRule(42, "dettes_autres"),
       SheetRule(43, "dettes_autres"),
       SheetRule(44, "dettes_autres"),
       SheetRule(45, "dettes_autres"),
       SheetRule(46, "dettes_autres") >>

\* the calls of build_liabilities made under 'if balance < 0', in order
LiabilitiesNegative(account_name) ==
    << SheetRule(51, "dettes_emprunts"),
       SheetRule(4191, "dettes_avances"),
       SheetRule(40, "dettes_fournisseurs") >>
    \o (IF Slice(account_name, 4) # Str(4191)
        THEN << SheetRule(41, "dettes_autres") >>
        ELSE << >>)
    \o
    << SheetRule(42, "dettes_autres"),
       SheetRule(43, "dettes_autres"),
       SheetRule(44, "dettes_autres"),
       SheetRule(45, "dettes_autres"),
       SheetRule(46, "dettes_autres") >>

\* build_liabilities with the test 'if balance < 0' left out
build_liabilities_any_sign(s, account_name, balance) ==
    ApplySheetRules(
        ApplySheetRules(s, LiabilitiesAnySign, account_name, balance),
        LiabilitiesNegative(account_name), account_name, balance)

build_liabilities(s, account_name, balance) ==
    LET s1 == ApplySheetRules(s, LiabilitiesAnySign, account_name, balance)
    IN  IF balance < 0
        THEN ApplySheetRules(s1, LiabilitiesNegative(account_name),
                        account_name, balance)
        ELSE s1

\* the calls of build_p_l, in order
PLRules ==
    << SheetRule(607, "achat_marchandises"),
       SheetRule(6097, "achat_marchandises"),
       SheetRule(6037, "variation_stocks"),
       SheetRule(601, "achats_approvisionnements"),
       SheetRule(602, "achats_approvisionnements"),
       SheetRule(604, "achats_approvisionnements"),
       SheetRule(605, "achats_approvisionnements"),
       SheetRule(606, "achats_approvisionnements"),
       SheetRule(6031, "variation_stocks"),
       SheetRule(6032, "variation_stocks"),
       SheetRule(61, "autres_charges_externes"),
       SheetRule(62, "autres_charges_externes"),
       SheetRule(63, "impots"),
       SheetRule(641, "remuneration"),
       SheetRule(644, "remuneration"),
       SheetRule(645, "charges_sociales"),
       SheetRule(646, "charges_sociales"),
       SheetRule(6811, "dotations_amort"),
       SheetRule(6815, "dotations_provisions"),
       SheetRule(6817, "dotations_provisions"),
       SheetRule(65, "autres_charges"),
       SheetRule(66, "charges_financieres"),
       SheetRule(686, "charges_financieres"),
       SheetRule(67, "charges_exception"),
       SheetRule(687, "charges_exception"),
       SheetRule(695, "impots_benefices"),
       SheetRule(697, "impots_benefices"),
       SheetRule(707, "ventes_marchandises"),
       SheetRule(7097, "ventes_marchandises"),
       SheetRule(701, "production_vendue"),
       SheetRule(706, "production_vendue"),
       SheetRule(708, "production_vendue"),
       SheetRule(7091, "production_vendue"),
       SheetRule(7096, "production_vendue"),
       SheetRule(7098, "production_vendue"),
       SheetRule(713, "production_stockee"),
       SheetRule(72, "production_immobilisee"),
       SheetRule(74, "subvention_exploit"),
       SheetRule(75, "autre_produits"),
       SheetRule(781, "autre_produits"),
       SheetRule(791, "autre_produits"),
       SheetRule(76, "produits_financiers"),
       SheetRule(786, "produits_financiers"),
       SheetRule(796, "produits_financiers"),
       SheetRule(77, "produits_except"),
       SheetRule(787, "produits_except"),
       SheetRule(797, "produits_except") >>

build_p_l(s, account_name, balance) ==
    ApplySheetRules(s, PLRules, account_name, balance)

\* the body of the loop of construct_reports, for one item of accounts
build_account(s, account_name, balance) ==
    build_p_l(build_liabilities(build_assets(s, account_name, balance),
                                account_name, balance),
              account_name, balance)

\* sheet = {}
EmptySheet == << >>

\* the sheet of construct_reports after its loop over the items of accounts,
\* taken in the order of the list, and sum_all_entries
RECURSIVE build_all(_, _)
build_all(s, items) ==
    IF items = << >> THEN s
    ELSE build_all(build_account(s, items[1][1], items[1][2]), Tail(items))

summed_sheet(items) == sum_all_entries(build_all(EmptySheet, items))

-----------------------------------------------------------------------------
(* bilan.py: the latex of the balance sheet.  The text returned by a       *)
(* section is modelled as its list of lines: the line of the group, one    *)
(* row for each account, a spacer.  A number is printed as it is.          *)

\* a < b of two Python strings of digits
LexLess(a, b) ==
    LET n == Min(Len(a), Len(b))
        differ == { i \in 1..n : a[i] # b[i] }
    IN  IF differ = {} THEN Len(a) < Len(b)
        ELSE LET i == CHOOSE i \in differ : \A j \in differ : i <= j
             IN  a[i] < b[i]

\* x < y of two (account_name, balance) tuples
TupleLess(x, y) == LexLess(x[1], y[1]) \/ (x[1] = y[1] /\ x[2] < y[2])

\* sorted(table.keys())
RECURSIVE sorted_names(_)
sorted_names(names) ==
    IF names = {} THEN << >>
    ELSE LET first == CHOOSE a \in names : \A b \in names \ {a} : LexLess(a, b)
         IN  << first >> \o sorted_names(names \ {first})

\* the entries in the order of the list
unsorted_entries(entries) == entries

\* sorted(entries_group['entries'])
RECURSIVE sorted_entries(_)
sorted_entries(entries) ==
    IF entries = << >> THEN << >>
    ELSE LET rest == sorted_entries(Tail(entries))
             k == Cardinality({ i \in DOMAIN rest : TupleLess(rest[i], Head(entries)) })
         IN  SubSeq(rest, 1, k) \o << Head(entries) >> \o SubSeq(rest, k + 1, Len(rest))

\* table[account_name].get(column, 0): the balance of the last entry of the
\* account in the column, 0 when it has none
TableGet(entries, account_name) ==
    LET at == { i \in DOMAIN entries : entries[i][1] = account_name }
    IN  IF at = {} THEN 0
        ELSE entries[CHOOSE i \in at : \A j \in at : j <= i][2]

\* assets_latex_section with the net of a row computed as brute + amort,
\* amort being the figure displayed
assets_latex_section_net_added(name, s, key) ==
    IF key \notin DOMAIN s THEN << >>
    ELSE LET entries_group == s[key]
             names == { entries_group.brute.entries[i][1] :
                            i \in DOMAIN entries_group.brute.entries }
                      \cup { entries_group.amort.entries[i][1] :
                                 i \in DOMAIN entries_group.amort.entries }
             order == sorted_names(names)
         IN  << [kind |-> "group", title |-> name,
                 brut |-> entries_group.brute.balance,
                 amort |-> -entries_group.amort.balance,
                 net |-> entries_group.brute.balance + entries_group.amort.balance,
                 n1 |-> 0] >>
             \o [i \in DOMAIN order |->
                    LET brute == TableGet(entries_group.brute.entries, order[i])
                        amort == -TableGet(entries_group.amort.entries, order[i])
                    IN  [kind |-> "row", account_name |-> order[i],
                         brut |-> brute, amort |-> amort,
                         net |-> brute + amort, n1 |-> 0]]
             \o << [kind |-> "spacer"] >>

\* assets_latex_section: "" when the sheet has no such group
assets_latex_section(name, s, key) ==
    IF key \notin DOMAIN s THEN << >>
    ELSE LET entries_group == s[key]
             names == { entries_group.brute.entries[i][1] :
                            i \in DOMAIN entries_group.brute.entries }
                      \cup { entries_group.amort.entries[i][1] :
                                 i \in DOMAIN entries_group.amort.entries }
             order == sorted_names(names)
         IN  << [kind |-> "group", title |-> name,
                 brut |-> entries_group.brute.balance,
                 amort |-> -entries_group.amort.balance,
                 net |-> entries_group.brute.balance + entries_group.amort.balance,
                 n1 |-> 0] >>
             \o [i \in DOMAIN order |->
                    LET brute == TableGet(entries_group.brute.entries, order[i])
                        amort == -TableGet(entries_group.amort.entries, order[i])
                    IN  [kind |-> "row", account_name |-> order[i],
                         brut |-> brute, amort |-> amort,
                         net |-> brute - amort, n1 |-> 0]]
             \o << [kind |-> "spacer"] >>

\* the calls of build_assets_latex, in order: <<name, key>>
AssetSections ==
    << << "Immobilisations Incorporelles : fond commercial", "immo_incorp__fonds_commercial" >>,
       << "Immobilisations Incorporelles : autres", "immo_incorp__autres" >>,
       << "Immobilisations Incorporelles", "immo_incorp__fonds_commercial" >>,
       << "Immobilisations Corporelles", "immo_corp" >>,
       << "Immobilisations financieres", "immo_fin" >>,
       << "Stocks (autre que marchandises)", "stock_pas_marchandises" >>,
       << "Stocks de marchandises", "stock_marchandises" >>,
       << "Avances et acomptes verses", "avances" >>,
       << "Creances : clients et comptes rattaches", "creances_clients" >>,
       << "Creances : autres creances", "creances_clients" >>,
       << "Valeurs mobilieres de placement", "mobil_placement" >>,
       << "Disponibilites (autres que caisse)", "disponibilite_non_caisse" >>,
       << "Caisse", "caisse" >>,
       << "Charges constatees d'avance", "charges_constates_avance" >> >>

build_assets_latex(s) ==
    LET assets[i \in 0..Len(AssetSections)] ==
            IF i = 0 THEN << >>
            ELSE assets[i - 1]
                 \o assets_latex_section(AssetSections[i][1], s, AssetSections[i][2])
    IN  assets[Len(AssetSections)]

\* the key 0 that build_liabilities_latex gives for the result of the
\* period: an int, which no key of the sheet (a str) equals
ResultKey == "0"

\* the line simple_latex_section prints when the sheet has no such group
SeparatorLine == "================================================"

\* what simple_latex_section prints
simple_latex_section_prints(name, s, key) ==
    << [text |-> "section", key |-> key, name |-> name] >>
    \o (IF key \notin DOMAIN s THEN << [text |-> SeparatorLine] >> ELSE << >>)

\* what simple_latex_section returns: "" when the sheet has no such group
simple_latex_section(name, s, key) ==
    IF key \notin DOMAIN s THEN << >>
    ELSE LET entries_group == s[key]
             order == sorted_entries(entries_group.entries)
         IN  << [kind |-> "group", title |-> name,
                 n |-> entries_group.balance, n1 |-> 0] >>
             \o [i \in DOMAIN order |->
                    [kind |-> "row", account_name |-> order[i][1],
                     n |-> order[i][2], n1 |-> 0]]
             \o << [kind |-> "spacer"] >>

\* the calls of build_liabilities_latex, in order: <<name, key>>
LiabilitySections ==
    << << "Capital", "capital" >>,
       << "Ecart de reevaluation", "ecarts_de_reevaluation" >>,
       << "Reserve legale", "reserves_legale" >>,
       << "Reserves reglementees", "reserves_reglementaire" >>,
       << "Reserves : autres", "reserves_autre" >>,
       << "Report a nouveau", "report_a_nouveau" >>,
       << "Resultat de l'exercice", ResultKey >>,
       << "Provisions reglementees", "provisions_relgementees" >>,
       << "Provisions", "provisions" >>,
       << "Emprunts et dettes assimilees", "dettes_emprunts" >>,
       << "Avances et acomptes recus", "dettes_avances" >>,
       << "Fournisseurs et comptes rattaches", "dettes_fournisseurs" >>,
       << "Dettes : autres", "dettes_autres" >>,
       << "Produits constates d'avance", "produits_constates_avance" >> >>

build_liabilities_latex(s) ==
    LET liabilities[i \in 0..Len(LiabilitySections)] ==
            IF i = 0 THEN << >>
            ELSE liabilities[i - 1]
                 \o simple_latex_section(LiabilitySections[i][1], s,
                                         LiabilitySections[i][2])
    IN  liabilities[Len(LiabilitySections)]

\* what the calls of build_liabilities_latex print
build_liabilities_latex_prints(s) ==
    LET printed[i \in 0..Len(LiabilitySections)] ==
            IF i = 0 THEN << >>
            ELSE printed[i - 1]
                 \o simple_latex_section_prints(LiabilitySections[i][1], s,
                                                LiabilitySections[i][2])
    IN  printed[Len(LiabilitySections)]

-----------------------------------------------------------------------------
(* bilan.py: the ledger snapshots given to construct_reports.              *)

\* get_account_balances keeps the leaf accounts whose balance is not zero
Amounts == {-1000000, 1000, 300000}

\* one account of every code 1..MaxCode, with a balance of either sign
OneAccountSnapshots ==
    { << <<Str(n), b>> >> : n \in 1..MaxCode, b \in {-1000000, -1000, 1000, 1000000} }

LedgerNames ==
    { Str(n) : n \in {101, 218, 2818, 401, 4091, 411, 4191, 512, 607, 706, 999} }

HasDistinctNames(snapshot) ==
    \A i, j \in DOMAIN snapshot : snapshot[i][1] = snapshot[j][1] => i = j

\* up to MaxAccounts accounts, in any iteration order
SmallSnapshots ==
    UNION { { snapshot \in [1..k -> LedgerNames \X Amounts] :
                HasDistinctNames(snapshot) } : k \in 0..MaxAccounts }

\* up to ten accounts 6070..6079 of one group, each with a balance of 0.10
DimeSnapshots ==
    { [i \in 1..k |-> <<Str(6069 + i), 1000>>] : k \in 0..10 }

-----------------------------------------------------------------------------
(* bilan.py: construct_reports.                                            *)

BudgetIdle ==
    /\ balances = << >>
    /\ config = << << >>, << >> >>
    /\ expenses = << >>
    /\ income = << >>
    /\ imbalance = FALSE
    /\ missing = {}
    /\ balance_sheet = << >>
    /\ bpc = "idle"

\* a file that does not exist; no DataFrame
NoFile == [written |-> FALSE, rows |-> 0]
NoBook == [format |-> "none", rows |-> 0]

CanonicalIdle ==
    /\ book_file = NoFile
    /\ book = NoBook
    /\ out_file = NoFile
    /\ cpc = "idle"

\* None
None == "None"

CompareIdle ==
    /\ config_1_column = << >>
    /\ config_2_column = << >>
    /\ additions = << >>
    /\ out_labels = << >>
    /\ for_index = 0
    /\ label_index = 0
    /\ label = None
    /\ compared = << >>
    /\ kpc = "idle"

\* no QIF written or printed
NoQif == << >>

QifIdle ==
    /\ gnucash = << >>
    /\ account_balances = << >>
    /\ ha_config = << >>
    /\ data = << >>
    /\ data_view = << >>
    /\ row_index = 0
    /\ qif = NoQif
    /\ qpc = "idle"

\* the other scripts do not run
OthersIdle == CompareIdle /\ QifIdle

InitReports(snapshots) ==
    /\ accounts \in snapshots
    /\ idx = 0
    /\ sheet = EmptySheet
    /\ pc = "build"
    /\ assets_latex = << >>
    /\ liabilities_latex = << >>
    /\ stdout = << >>
    /\ BudgetIdle
    /\ CanonicalIdle
    /\ OthersIdle

\* one iteration of 'for account_name, balance in accounts.items()'
BuildAccount ==
    /\ pc = "build"
    /\ idx < Len(accounts)
    /\ sheet' = build_account(sheet, accounts[idx + 1][1], accounts[idx + 1][2])
    /\ idx' = idx + 1
    /\ UNCHANGED <<accounts, pc, assets_latex, liabilities_latex, stdout>>
    /\ UNCHANGED <<budgetVars, canonicalVars, compareVars, qifVars>>

\* the loop is over: sum_all_entries(sheet)
SumAllEntries ==
    /\ pc = "build"
    /\ idx = Len(accounts)
    /\ sheet' = sum_all_entries(sheet)
    /\ pc' = "summed"
    /\ UNCHANGED <<accounts, idx, assets_latex, liabilities_latex, stdout>>
    /\ UNCHANGED <<budgetVars, canonicalVars, compareVars, qifVars>>

\* assets_latex = build_assets_latex(sheet) and
\* liabilities_latex = build_liabilities_latex(sheet)
BuildLatex ==
    /\ pc = "summed"
    /\ assets_latex' = build_assets_latex(sheet)
    /\ liabilities_latex' = build_liabilities_latex(sheet)
    /\ stdout' = stdout \o build_liabilities_latex_prints(sheet)
    /\ pc' = "rendered"
    /\ UNCHANGED <<accounts, idx, sheet>>
    /\ UNCHANGED <<budgetVars, canonicalVars, compareVars, qifVars>>

NextReports ==
    \/ BuildAccount
    \/ SumAllEntries
    \/ BuildLatex

\* construct_reports on one account of any code
SpecClassify == InitReports(OneAccountSnapshots) /\ [][NextReports]_vars

\* construct_reports on a small ledger
SpecReports == InitReports(SmallSnapshots \cup DimeSnapshots) /\ [][NextReports]_vars

-----------------------------------------------------------------------------
(* suivie_budgetaire.py: the columns of the budget tracking.               *)

\* set(line[2]): the accounts of a list
ToSet(list) == { list[i] : i \in DOMAIN list }

\* sum([v for k, v in d.items() if k in keys])
RECURSIVE SumOver(_, _)
SumOver(d, keys) ==
    IF keys \cap DOMAIN d = {} THEN 0
    ELSE LET k == CHOOSE k \in keys \cap DOMAIN d : TRUE
         IN  d[k] + SumOver(d, keys \ {k})

\* sum([v for k, v in balances.items() if k[0] == digit])
ClassSum(d, digit) == SumOver(d, { k \in DOMAIN d : k[1] = digit })

\* sum([x[2] for x in column if len(x) == 3])
RECURSIVE SumColumn(_)
SumColumn(column) ==
    IF column = << >> THEN 0
    ELSE (IF Len(column[1]) = 3 THEN column[1][3] ELSE 0) + SumColumn(Tail(column))

\* np.round(x, 2): to the nearest hundredth, a tie to the even hundredth
Round2(x) ==
    LET q == x \div 100
        r == x % 100
    IN  IF r < 50 THEN 100 * q
        ELSE IF r > 50 THEN 100 * (q + 1)
        ELSE IF q % 2 = 0 THEN 100 * q ELSE 100 * (q + 1)

\* compute_balance_sheet_list without 'if account in these_accounts'
compute_balance_sheet_list_unfiltered(config_column, d) ==
    [i \in DOMAIN config_column |->
        IF Len(config_column[i]) = 1
        THEN config_column[i]
        ELSE << config_column[i][1], config_column[i][2], SumOver(d, DOMAIN d) >>]

compute_balance_sheet_list(config_column, d) ==
    [i \in DOMAIN config_column |->
        IF Len(config_column[i]) = 1
        THEN config_column[i]
        ELSE << config_column[i][1], config_column[i][2],
                SumOver(d, ToSet(config_column[i][3])) >>]

\* scan_for_missing_accounts looking at the expense accounts alone
scan_for_missing_accounts_expenses(config_column, balance_accounts) ==
    LET config_accounts ==
            UNION { ToSet(config_column[i][3]) :
                      i \in { j \in DOMAIN config_column : Len(config_column[j]) > 1 } }
        expense_accounts ==
            { balance_accounts[i] :
                i \in { j \in DOMAIN balance_accounts : balance_accounts[j][1] = 6 } }
    IN  expense_accounts \ config_accounts

\* scan_for_missing_accounts taking the first account of each line alone
scan_for_missing_accounts_first(config_column, balance_accounts) ==
    LET config_accounts ==
            UNION { (IF config_column[i][3] = << >> THEN {}
                     ELSE { config_column[i][3][1] }) :
                      i \in { j \in DOMAIN config_column : Len(config_column[j]) > 1 } }
        income_expense_accounts ==
            { balance_accounts[i] :
                i \in { j \in DOMAIN balance_accounts : balance_accounts[j][1] \in {6, 7} } }
    IN  income_expense_accounts \ config_accounts

\* the set scan_for_missing_accounts prints when it is not empty
scan_for_missing_accounts(config_column, balance_accounts) ==
    LET config_accounts ==
            UNION { ToSet(config_column[i][3]) :
                      i \in { j \in DOMAIN config_column : Len(config_column[j]) > 1 } }
        income_expense_accounts ==
            { balance_accounts[i] :
                i \in { j \in DOMAIN balance_accounts : balance_accounts[j][1] \in {6, 7} } }
    IN  income_expense_accounts \ config_accounts

\* [account for account, balance in balances.items()], the keys in some order
RECURSIVE KeyList(_)
KeyList(keys) ==
    IF keys = {} THEN << >>
    ELSE LET k == CHOOSE k \in keys : TRUE IN << k >> \o KeyList(keys \ {k})

\* the double check comparing the sums as they are
unexpected_imbalance_exact(d, exp, inc) ==
    \/ ClassSum(d, 6) # SumColumn(exp)
    \/ ClassSum(d, 7) # SumColumn(inc)

\* the test of the double check of get_balance_sheet_as_list
unexpected_imbalance(d, exp, inc) ==
    \/ Round2(ClassSum(d, 6)) # Round2(SumColumn(exp))
    \/ Round2(ClassSum(d, 7)) # Round2(SumColumn(inc))

\* '{:11.2f}'.format(x): x printed with two decimals
Format2f(x) == Round2(x)

\* what the double check of get_balance_sheet_as_list prints
double_check_prints(d, exp, inc) ==
    IF unexpected_imbalance(d, exp, inc)
    THEN << [text |-> "Unexpected imbalance:",
             balances |-> << Format2f(ClassSum(d, 6)), Format2f(ClassSum(d, 7)) >>,
             display |-> << Format2f(SumColumn(exp)), Format2f(SumColumn(inc)) >>] >>
    ELSE << >>

\* what scan_for_missing_accounts prints
scan_for_missing_accounts_prints(missing_accounts) ==
    IF Cardinality(missing_accounts) > 0
    THEN << [text |-> "Missing accounts from config: ", m |-> missing_accounts] >>
    ELSE << >>

\* get_balance_sheet with the income taken as a positive figure
result_of_unsigned(sum_expenses, sum_income) == sum_income - sum_expenses

\* 'result = -(sum_income + sum_expenses)' of get_balance_sheet
result_of(sum_expenses, sum_income) == -(sum_income + sum_expenses)

ResultLabel == "Resultat de l'exercice"

\* get_balance_sheet appending the result line to balance_sheet[1]
inject_result_income_side(sheet_list) ==
    LET result == result_of(SumColumn(sheet_list[1]), SumColumn(sheet_list[2]))
    IN  << sheet_list[1], Append(sheet_list[2], << ResultLabel, 0, result >>) >>

\* the end of get_balance_sheet: the result line appended to balance_sheet[0]
inject_result(sheet_list) ==
    LET result == result_of(SumColumn(sheet_list[1]), SumColumn(sheet_list[2]))
    IN  << Append(sheet_list[1], << ResultLabel, 0, result >>), sheet_list[2] >>

\* total_realised of render_as_latex_one_column, as printed on the Total line
TotalRealised(balance_sheet_column, multiplier) ==
    LET total[i \in 0..Len(balance_sheet_column)] ==
            IF i = 0 THEN 0
            ELSE IF Len(balance_sheet_column[i]) = 1 THEN total[i - 1]
                 ELSE total[i - 1] + balance_sheet_column[i][3]
    IN  multiplier * total[Len(balance_sheet_column)]

-----------------------------------------------------------------------------
(* suivie_budgetaire.py: the inputs.                                       *)

\* total number of lines of the two columns of a config
MaxLines == 2

BudgetNames == { Str(n) : n \in {607, 615, 706, 4091} }

\* an expense or income account has a balance of either sign, in the sizes
\* of the example of the specification (100.00, -250.00); account 615 may
\* carry a residue under half a cent (0.0040) instead; an account of
\* another class has the balance of that example (30.00)
BudgetAmounts(account) ==
    IF account = Str(615) THEN {40, 1000000}
    ELSE IF account[1] \in {6, 7} THEN {-2500000, 1000000}
    ELSE {300000}

\* the dicts get_account_balances can return over these accounts
BalanceDicts ==
    UNION { { d \in [names -> {-2500000, 40, 300000, 1000000}] :
                \A account \in names : d[account] \in BudgetAmounts(account) } :
            names \in SUBSET BudgetNames }

\* the lists of accounts of a config line: up to two accounts
AccountLists ==
    { KeyList(names) : names \in { s \in SUBSET BudgetNames : Cardinality(s) <= 2 } }

\* a config line: a title, or a label, a budget and a list of accounts
ConfigLines ==
    { << "title" >> } \cup { << "label", 0, list >> : list \in AccountLists }

\* the configs of at most MaxLines lines: a column of expenses, one of income
Configs ==
    UNION { [1..k[1] -> ConfigLines] \X [1..k[2] -> ConfigLines] :
            k \in { n \in (0..MaxLines) \X (0..MaxLines) : n[1] + n[2] <= MaxLines } }

-----------------------------------------------------------------------------
(* suivie_budgetaire.py: get_balance_sheet.                                *)

ReportsIdle ==
    /\ accounts = << >>
    /\ idx = 0
    /\ sheet = EmptySheet
    /\ pc = "idle"
    /\ assets_latex = << >>
    /\ liabilities_latex = << >>

InitBudget ==
    /\ balances \in BalanceDicts
    /\ config \in Configs
    /\ expenses = << >>
    /\ income = << >>
    /\ imbalance = FALSE
    /\ missing = {}
    /\ balance_sheet = << >>
    /\ bpc = "start"
    /\ stdout = << >>
    /\ ReportsIdle
    /\ CanonicalIdle
    /\ OthersIdle

\* get_balance_sheet_as_list leaving at the double check when it finds
\* an imbalance
GetBalanceSheetAsListOrFail ==
    /\ bpc = "start"
    /\ expenses' = compute_balance_sheet_list(config[1], balances)
    /\ income' = compute_balance_sheet_list(config[2], balances)
    /\ imbalance' = unexpected_imbalance(balances, expenses', income')
    /\ IF imbalance'
       THEN /\ stdout' = stdout \o double_check_prints(balances, expenses', income')
            /\ bpc' = "failed"
            /\ UNCHANGED <<missing, balance_sheet>>
       ELSE /\ missing' = scan_for_missing_accounts(config[1] \o config[2],
                                                    KeyList(DOMAIN balances))
            /\ stdout' = stdout \o scan_for_missing_accounts_prints(missing')
            /\ balance_sheet' = << expenses', income' >>
            /\ bpc' = "listed"
    /\ UNCHANGED <<balances, config>>
    /\ UNCHANGED <<bilanVars, canonicalVars, compareVars, qifVars>>

\* get_balance_sheet_as_list taking out of balances the accounts it has
\* summed in a line
GetBalanceSheetAsListPopping ==
    /\ bpc = "start"
    /\ expenses' = compute_balance_sheet_list(config[1], balances)
    /\ income' = compute_balance_sheet_list(config[2], balances)
    /\ imbalance' = unexpected_imbalance(balances, expenses', income')
    /\ missing' = scan_for_missing_accounts(config[1] \o config[2],
                                            KeyList(DOMAIN balances))
    /\ stdout' = stdout \o double_check_prints(balances, expenses', income')
                        \o scan_for_missing_accounts_prints(missing')
    /\ balance_sheet' = << expenses', income' >>
    /\ bpc' = "listed"
    /\ balances' = [account \in { a \in DOMAIN balances :
                                    \A i \in DOMAIN (config[1] \o config[2]) :
                                        \/ Len((config[1] \o config[2])[i]) = 1
                                        \/ a \notin ToSet((config[1] \o config[2])[i][3]) }
                      |-> balances[account]]
    /\ UNCHANGED config
    /\ UNCHANGED <<bilanVars, canonicalVars, compareVars, qifVars>>

\* get_balance_sheet_as_list: both columns computed, the double check, the
\* scan for missing accounts, and the return of [expenses, income]
GetBalanceSheetAsList ==
    /\ bpc = "start"
    /\ expenses' = compute_balance_sheet_list(config[1], balances)
    /\ income' = compute_balance_sheet_list(config[2], balances)
    /\ imbalance' = unexpected_imbalance(balances, expenses', income')
    /\ missing' = scan_for_missing_accounts(config[1] \o config[2],
                                            KeyList(DOMAIN balances))
    /\ stdout' = stdout \o double_check_prints(balances, expenses', income')
                        \o scan_for_missing_accounts_prints(missing')
    /\ balance_sheet' = << expenses', income' >>
    /\ bpc' = "listed"
    /\ UNCHANGED <<balances, config>>
    /\ UNCHANGED <<bilanVars, canonicalVars, compareVars, qifVars>>

\* get_balance_sheet: the result line appended to the returned list
InjectResult ==
    /\ bpc = "listed"
    /\ balance_sheet' = inject_result(balance_sheet)
    /\ bpc' = "done"
    /\ UNCHANGED <<balances, config, expenses, income, imbalance, missing, stdout>>
    /\ UNCHANGED <<bilanVars, canonicalVars, compareVars, qifVars>>

NextBudget ==
    \/ GetBalanceSheetAsList
    \/ InjectResult

SpecBudget == InitBudget /\ [][NextBudget]_vars

\* the configs of at most one line in each column
OneLineConfigs ==
    UNION { [1..k[1] -> ConfigLines] \X [1..k[2] -> ConfigLines] :
            k \in (0..1) \X (0..1) }

InitOneLine ==
    /\ balances \in BalanceDicts
    /\ config \in OneLineConfigs
    /\ expenses = << >>
    /\ income = << >>
    /\ imbalance = FALSE
    /\ missing = {}
    /\ balance_sheet = << >>
    /\ bpc = "start"
    /\ stdout = << >>
    /\ ReportsIdle
    /\ CanonicalIdle
    /\ OthersIdle

\* construct_reports on a small ledger, or get_balance_sheet on a config of
\* at most one line in each column
SpecOrders ==
    /\ InitReports(SmallSnapshots \cup DimeSnapshots) \/ InitOneLine
    /\ [][NextReports \/ NextBudget]_vars

-----------------------------------------------------------------------------
(* una_canonical.py.  The file args.book is its first line and the number  *)
(* of lines after it: whether it starts with a byte order mark, the text   *)
(* of the first line, how that line ends ("" when the file ends there),    *)
(* the lines that follow.  The accented letters of the headers are written *)
(* without their accents.                                                  *)

\* number of lines after the first line of the file
MaxRows == 3

\* the text of ebp_v19 and of ebp_v21, before the newline
EbpV19Text ==
    "\"Journal\";\"Compte\";\"Date\";\"Date de valeur\";\"Date de saisie\";\"Echeance\";\"Poste\";\"Piece\";\"No document\";\"Libelle\";\"Debit\";\"Credit\";\"Devise\";\"Cours\";\"Debit devise\";\"Credit devise\";\"Contrevaleur debit\";\"Contrevaleur credit\";\"Lettre\";\"Rapp.\";\"Regl.\";\"No Cheque\";\"Compte TVA sur Enc.\";\"Mois de TVA sur Enc.\";\"Type d'ecriture transferee de la Gestion : (A)voir - (F)acture - (R)eglement\";\"No facture ou reglement GC\";\"Date de Releve\";\"Date de lettrage\";\"Provenance\";\"Ref. BVR / Motif\";\"No adherent\";\"Date derniere generation\";\"Partiel\";\"bSaisieKM\";\"Numero d'ecriture\""
EbpV21Text ==
    "Code journal;Description du journal;Date;Date au format L47;No de compte;Intitule du compte;Piece;Date de piece;Document;Libelle;Debit;Credit;Montant seul (positif ou negatif);Montant (associe au sens);Sens;Statut;Date de lettrage;Lettrage;Partiel;Date de l'echeance;Moyen de paiement;Notes;No de ligne pour les documents associes;Documents associes;Plan analytique;Poste analytique"

\* ebp_v19 and ebp_v21 of get_data: <<text, end of line>>
ebp_v19 == << EbpV19Text, "\n" >>
ebp_v21 == << EbpV21Text, "\n" >>

\* first lines of other exports: the fields of EBP v19 without quotes, the
\* header of EBP v21 with a closing separator, a GnuCash export, nothing
FirstLineTexts ==
    { EbpV19Text, EbpV21Text,
      "Journal;Compte;Date;Date de valeur;Date de saisie;Echeance;Poste;Piece;No document;Libelle;Debit;Credit;Devise;Cours;Debit devise;Credit devise;Contrevaleur debit;Contrevaleur credit;Lettre;Rapp.;Regl.;No Cheque;Compte TVA sur Enc.;Mois de TVA sur Enc.;Type d'ecriture transferee de la Gestion : (A)voir - (F)acture - (R)eglement;No facture ou reglement GC;Date de Releve;Date de lettrage;Provenance;Ref. BVR / Motif;No adherent;Date derniere generation;Partiel;bSaisieKM;Numero d'ecriture",
      "Code journal;Description du journal;Date;Date au format L47;No de compte;Intitule du compte;Piece;Date de piece;Document;Libelle;Debit;Credit;Montant seul (positif ou negatif);Montant (associe au sens);Sens;Statut;Date de lettrage;Lettrage;Partiel;Date de l'echeance;Moyen de paiement;Notes;No de ligne pour les documents associes;Documents associes;Plan analytique;Poste analytique;",
      "Date,Account Name,Number,Description,Full Category Path,Reconcile,Amount With Sym,Amount Num.,Rate/Price",
      "" }

BookFiles ==
    { f \in [bom : BOOLEAN, text : FirstLineTexts, eol : {"", "\n", "\r\n"},
             rows : 0..MaxRows] :
        f.eol = "" => f.rows = 0 }

\* book_fp.readline() of a file opened in text mode with encoding
\* 'utf-8-sig': the byte order mark is dropped, the end of line read as "\n"
readline(f) == << f.text, IF f.eol = "" THEN "" ELSE "\n" >>

\* the DataFrame of get_data_ebp_v19 and of get_data_ebp_v21: one row for
\* each line after the header, in the canonical columns
get_data_ebp_v19(f) == [format |-> "ebp_v19", rows |-> f.rows]
get_data_ebp_v21(f) == [format |-> "ebp_v21", rows |-> f.rows]

\* get_data reading any other export as one of EBP v21
get_data_lenient(f) ==
    LET first_line == readline(f)
    IN  IF first_line = ebp_v19
        THEN [raised |-> "none", book |-> get_data_ebp_v19(f), printed |-> << >>]
        ELSE [raised |-> "none", book |-> get_data_ebp_v21(f), printed |-> << >>]

\* get_data: the book it returns, or the exception it raises
get_data(f) ==
    LET first_line == readline(f)
    IN  IF first_line = ebp_v19
        THEN [raised |-> "none", book |-> get_data_ebp_v19(f), printed |-> << >>]
        ELSE IF first_line = ebp_v21
        THEN [raised |-> "none", book |-> get_data_ebp_v21(f), printed |-> << >>]
        ELSE [raised |-> "ImportError", book |-> NoBook,
              printed |-> << [text |-> "Unrecognized book format."] >>]

\* book.to_csv(fp_out, index=False)
to_csv(b) == [written |-> TRUE, rows |-> b.rows]

InitCanonical ==
    /\ book_file \in BookFiles
    /\ book = NoBook
    /\ out_file = NoFile
    /\ cpc = "start"
    /\ stdout = << >>
    /\ ReportsIdle
    /\ BudgetIdle
    /\ OthersIdle

\* book = get_data(args.book); an exception ends main
GetData ==
    /\ cpc = "start"
    /\ LET r == get_data(book_file)
       IN  /\ book' = r.book
           /\ stdout' = stdout \o r.printed
           /\ cpc' = IF r.raised = "none" THEN "read" ELSE r.raised
    /\ UNCHANGED <<book_file, out_file>>
    /\ UNCHANGED <<bilanVars, budgetVars, compareVars, qifVars>>

\* with open(args.out, 'w') as fp_out: book.to_csv(fp_out, index=False)
WriteCanonical ==
    /\ cpc = "read"
    /\ out_file' = to_csv(book)
    /\ cpc' = "written"
    /\ UNCHANGED <<book_file, book, stdout>>
    /\ UNCHANGED <<bilanVars, budgetVars, compareVars, qifVars>>

NextCanonical ==
    \/ GetData
    \/ WriteCanonical

SpecCanonical == InitCanonical /\ [][NextCanonical]_vars

-----------------------------------------------------------------------------
(* budget_comparatif.py: compare_budget_lists.  A column is a list of      *)
(* lines, <<title>> or <<label, amount, accounts>>.  The for loop over the *)
(* labels of budget 1 and the while loop inside it are taken one           *)
(* iteration at a time; label_index and for_index count from 0 as the      *)
(* code does.                                                              *)

\* the most lines of a column of budget 1
MaxLabels1 == 2

\* the most lines of a column of budget 2
MaxLabels2 == 3

\* [x[0] for x in config_column]
labels_of(config_column) ==
    [i \in DOMAIN config_column |-> config_column[i][1]]

\* {x[0]: x[1] for x in config_column if len(x) == 3}
label_to_amount(config_column) ==
    LET with_amount == { i \in DOMAIN config_column : Len(config_column[i]) = 3 }
    IN  [l \in { config_column[i][1] : i \in with_amount } |->
            LET last == CHOOSE i \in with_amount :
                            /\ config_column[i][1] = l
                            /\ \A j \in with_amount :
                                  config_column[j][1] = l => j <= i
            IN  config_column[last][2]]

\* label_to_amount.get(label, 0)
amount_get(amounts, l) ==
    IF l \in DOMAIN amounts THEN amounts[l] ELSE 0

\* the loop over the labels of budget 2, from its i-th label on
RECURSIVE build_additions(_, _, _, _, _)
build_additions(labels_2, label_set_1, i, adds, last_label) ==
    IF i > Len(labels_2)
    THEN adds
    ELSE IF labels_2[i] \notin label_set_1
         THEN build_additions(labels_2, label_set_1, i + 1,
                              (last_label :> labels_2[i]) @@ adds, last_label)
         ELSE build_additions(labels_2, label_set_1, i + 1, adds, labels_2[i])

\* the while loop keeping the label it has when it runs off budget 1
next_label_kept(labels_1, index, current) ==
    IF index < Len(labels_1) THEN labels_1[index + 1] ELSE current

\* the label the while loop goes on with, index being label_index + 1
next_label(labels_1, index, current) ==
    IF index < Len(labels_1) THEN labels_1[index + 1] ELSE None

\* the lines that compare_budget_lists returns for out_labels
compared_lines(labels, column_1, column_2) ==
    [i \in DOMAIN labels |->
        << labels[i],
           amount_get(label_to_amount(column_1), labels[i]),
           amount_get(label_to_amount(column_2), labels[i]) >>]

EmptyBudgets == << <<"Empty budgets aren't allowed", 0, 0>> >>

\* the longest out_labels can be when each pass of the for loop runs the
\* while loop to the end of budget 1
OutLabelsCap(labels_1) ==
    Len(labels_1) + (Len(labels_1) * (Len(labels_1) + 1)) \div 2

\* the lines of budget 1: a title, two lines with an amount
CompareLines1 ==
    { <<"a">>, <<"b", 1000000, << >> >>, <<"c", 300000, << >> >> }

\* the lines of budget 2: b with another amount, c as a title, two lines
\* that budget 1 does not have
CompareLines2 ==
    { <<"b", 300000, << >> >>, <<"c">>,
      <<"x", 2500000, << >> >>, <<"y", 1000, << >> >> }

InitCompare ==
    /\ config_1_column \in UNION { [1..n -> CompareLines1] : n \in 0..MaxLabels1 }
    /\ config_2_column \in UNION { [1..n -> CompareLines2] : n \in 0..MaxLabels2 }
    /\ additions = << >>
    /\ out_labels = << >>
    /\ for_index = 0
    /\ label_index = 0
    /\ label = None
    /\ compared = << >>
    /\ kpc = "start"
    /\ stdout = << >>
    /\ ReportsIdle
    /\ BudgetIdle
    /\ CanonicalIdle
    /\ QifIdle

\* compare_budget_lists up to the for loop over budget 1
CompareStart ==
    /\ kpc = "start"
    /\ IF Len(config_1_column) = 0 \/ Len(config_2_column) = 0
       THEN /\ stdout' = Append(stdout, [text |-> "Empty budgets not allowed."])
            /\ compared' = EmptyBudgets
            /\ kpc' = "returned"
            /\ UNCHANGED additions
       ELSE /\ additions' = build_additions(labels_of(config_2_column),
                                            ToSet(labels_of(config_1_column)), 1,
                                            << >>, labels_of(config_1_column)[1])
            /\ kpc' = "for"
            /\ UNCHANGED <<stdout, compared>>
    /\ UNCHANGED <<config_1_column, config_2_column, out_labels, for_index,
                   label_index, label>>
    /\ UNCHANGED <<bilanVars, budgetVars, canonicalVars, qifVars>>

\* the head of the for loop and the two statements before the while loop,
\* or the return when range(len(labels_1)) is used up
CompareFor ==
    /\ kpc = "for"
    /\ IF for_index < Len(config_1_column)
       THEN /\ label_index' = for_index
            /\ for_index' = for_index + 1
            /\ label' = labels_of(config_1_column)[for_index + 1]
            /\ out_labels' = Append(out_labels,
                                    labels_of(config_1_column)[for_index + 1])
            /\ kpc' = "while"
            /\ UNCHANGED compared
       ELSE /\ compared' = compared_lines(out_labels, config_1_column,
                                          config_2_column)
            /\ kpc' = "returned"
            /\ UNCHANGED <<label_index, for_index, label, out_labels>>
    /\ UNCHANGED <<config_1_column, config_2_column, additions, stdout>>
    /\ UNCHANGED <<bilanVars, budgetVars, canonicalVars, qifVars>>

\* the test of the while loop and one pass of its body; a pass needs room
\* in out_labels
CompareWhile ==
    /\ kpc = "while"
    /\ IF label \in DOMAIN additions
       THEN /\ Len(out_labels) < OutLabelsCap(config_1_column)
            /\ out_labels' = Append(out_labels, additions[label])
            /\ label_index' = label_index + 1
            /\ label' = next_label(labels_of(config_1_column), label_index + 1,
                                   label)
            /\ UNCHANGED kpc
       ELSE /\ kpc' = "for"
            /\ UNCHANGED <<out_labels, label_index, label>>
    /\ UNCHANGED <<config_1_column, config_2_column, additions, for_index,
                   compared, stdout>>
    /\ UNCHANGED <<bilanVars, budgetVars, canonicalVars, qifVars>>

NextCompare ==
    \/ CompareStart
    \/ CompareFor
    \/ CompareWhile

SpecCompare == InitCompare /\ [][NextCompare]_vars

\* the interpreter goes on with the next statement as long as there is one
SpecCompareFair == SpecCompare /\ WF_vars(NextCompare)

-----------------------------------------------------------------------------
(* The QIF scripts: a_nouveaux.py, ffa_qif.py and ha_qif.py.  A QIF is the *)
(* list of its lines, each the tag that starts the line and the value      *)
(* after it; the value of a T line and of a $ line is the amount.  The     *)
(* blank line that the join leaves before a ^ is left out.                 *)

\* the most rows of a download of FFA or of Helloasso
MaxDownload == 2

QifLine(tag, value) == [tag |-> tag, value |-> value]

\* a line "^"
Caret == QifLine("^", "")

\* the four lines that a QIF starts with
qif_header(account) ==
    << QifLine("!", "Account"), QifLine("N", account), Caret,
       QifLine("!", "Type:Bank") >>

\* '\n^\n'.join(transactions) + '\n^\n'
RECURSIVE join_transactions(_)
join_transactions(transactions) ==
    IF transactions = << >> THEN << Caret >>
    ELSE IF Len(transactions) = 1 THEN transactions[1] \o << Caret >>
    ELSE transactions[1] \o << Caret >> \o join_transactions(Tail(transactions))

(* a_nouveaux.py.  The book is its accounts by name, each with whether it  *)
(* has children and its balance; book.accounts and the dict of the         *)
(* balances are gone through in the ascending order of the names.          *)

\* get_result
get_result(accounts_of_book) ==
    LET leaves == { n \in DOMAIN accounts_of_book : ~accounts_of_book[n].children }
        total(names) == SumOver([n \in names |-> accounts_of_book[n].balance], names)
    IN  total({ n \in leaves : StartsWith(n, 7) })
        - total({ n \in leaves : StartsWith(n, 6) })

\* the balance that get_balances keeps for the account
kept_balance(account_name, balance) ==
    LET class_1 == IF StartsWith(account_name, 1) THEN -balance ELSE balance
    IN  IF StartsWith(account_name, 40) THEN -class_1 ELSE class_1

\* account_balances at the end of the loop of get_balances
balances_of(accounts_of_book) ==
    LET kept == { n \in DOMAIN accounts_of_book :
                    /\ ~accounts_of_book[n].children
                    /\ ~StartsWith(n, 6)
                    /\ ~StartsWith(n, 7)
                    /\ accounts_of_book[n].balance # 0 }
    IN  [n \in kept |-> kept_balance(n, accounts_of_book[n].balance)]

\* solde at the end of the loop of get_balances
solde_of(accounts_of_book) ==
    SumOver(balances_of(accounts_of_book), DOMAIN balances_of(accounts_of_book))

\* get_balances going on whatever the result and solde are
comptes_desequilibres_never(result, solde) == FALSE

\* the test before the raise of get_balances
comptes_desequilibres(result, solde) == result # solde

\* qif_entry of a_nouveaux
qif_entry_nouveaux(row) ==
    << QifLine("D", row.transaction_date_qif), QifLine("T", row.amount),
       QifLine("N", row.piece_comptable), QifLine("P", row.memo),
       QifLine("S", row.account), QifLine("$", -row.amount) >>

\* the rows that the loop of generate_qif makes, index being their number
nouveaux_rows(account_balances_dict) ==
    LET names == SelectSeq(sorted_names(DOMAIN account_balances_dict),
                           LAMBDA n : ~StartsWith(n, 129))
    IN  [index \in DOMAIN names |->
            [transaction_date_qif |-> "2018-10-01",
             piece_comptable |-> <<"OT-20181001-", index>>,
             memo |-> "A NOUVEAU",
             amount |-> account_balances_dict[names[index]],
             account |-> names[index]]]

\* the text that generate_qif writes
generate_qif(account_balances_dict) ==
    LET rows == nouveaux_rows(account_balances_dict)
    IN  qif_header("129_Resultat de l'exercice (deficit)")
        \o join_transactions([i \in DOMAIN rows |-> qif_entry_nouveaux(rows[i])])

\* the names of the accounts of the book of a_nouveaux
NouveauxNames == { Str(129), Str(401), Str(512), Str(607), Str(706) }

\* the books: leaves of the five names with a balance of -100.00, 0 or
\* 100.00, and with or without the account 51 that has children
NouveauxBooks ==
    UNION { [names \cup parent ->
                [children : {FALSE}, balance : {-1000000, 0, 1000000}]
                \cup [children : {TRUE}, balance : {1000000}]] :
            names \in SUBSET NouveauxNames, parent \in { {}, { Str(51) } } }

InitNouveaux ==
    /\ gnucash \in { b \in NouveauxBooks :
                       \A n \in DOMAIN b : b[n].children <=> n = Str(51) }
    /\ account_balances = << >>
    /\ ha_config = << >>
    /\ data = << >>
    /\ data_view = << >>
    /\ row_index = 0
    /\ qif = NoQif
    /\ qpc = "nouveaux"
    /\ stdout = << >>
    /\ ReportsIdle
    /\ BudgetIdle
    /\ CanonicalIdle
    /\ CompareIdle

\* balances = get_balances(args.gnucash)
GetBalances ==
    /\ qpc = "nouveaux"
    /\ IF comptes_desequilibres(get_result(gnucash), solde_of(gnucash))
       THEN /\ qpc' = "BaseException"
            /\ UNCHANGED <<account_balances, stdout>>
       ELSE /\ account_balances' = balances_of(gnucash)
            /\ stdout' = Append(stdout, [text |-> "Resultat = ",
                                         r |-> get_result(gnucash)])
            /\ qpc' = "balances"
    /\ UNCHANGED <<gnucash, ha_config, data, data_view, row_index, qif>>
    /\ UNCHANGED <<bilanVars, budgetVars, canonicalVars, compareVars>>

\* generate_qif(args.outfile, balances)
GenerateQif ==
    /\ qpc = "balances"
    /\ qif' = generate_qif(account_balances)
    /\ qpc' = "nouveaux written"
    /\ UNCHANGED <<gnucash, account_balances, ha_config, data, data_view,
                   row_index, stdout>>
    /\ UNCHANGED <<bilanVars, budgetVars, canonicalVars, compareVars>>

(* ffa_qif.py.  A row of the download is its amount, the column DEBIT.     *)
(* The rows all have the same date, so the sort leaves them in place.      *)

\* qif_entry of ffa_qif
qif_entry_ffa(row) ==
    LET this_amount == -row.amount
    IN  << QifLine("D", "date"), QifLine("T", this_amount),
           QifLine("N", "FFA"), QifLine("P", "description"),
           QifLine("M", "type"),
           QifLine("S", "6075_FFA licences"), QifLine("$", -this_amount),
           QifLine("E", "") >>

\* make_qif of ffa_qif
make_qif_ffa(rows) ==
    LET paid == SelectSeq(rows, LAMBDA row : row.amount # 0)
    IN  qif_header("401_FFA licences")
        \o join_transactions([i \in DOMAIN paid |-> qif_entry_ffa(paid[i])])

FfaRows == [amount : {0, 1000000, -300000}]

InitFfa ==
    /\ data \in UNION { [1..n -> FfaRows] : n \in 0..MaxDownload }
    /\ gnucash = << >>
    /\ account_balances = << >>
    /\ ha_config = << >>
    /\ data_view = << >>
    /\ row_index = 0
    /\ qif = NoQif
    /\ qpc = "ffa"
    /\ stdout = << >>
    /\ ReportsIdle
    /\ BudgetIdle
    /\ CanonicalIdle
    /\ CompareIdle

\* data_view = get_data(args.infile)
FfaGetData ==
    /\ qpc = "ffa"
    /\ data_view' = data
    /\ qpc' = "ffa view"
    /\ UNCHANGED <<gnucash, account_balances, ha_config, data, row_index, qif,
                   stdout>>
    /\ UNCHANGED <<bilanVars, budgetVars, canonicalVars, compareVars>>

\* qif = make_qif(data_view), written or printed
FfaMakeQif ==
    /\ qpc = "ffa view"
    /\ qif' = make_qif_ffa(data_view)
    /\ qpc' = "ffa qif"
    /\ UNCHANGED <<gnucash, account_balances, ha_config, data, data_view,
                   row_index, stdout>>
    /\ UNCHANGED <<bilanVars, budgetVars, canonicalVars, compareVars>>

(* ha_qif.py.  The config maps a description to a dict; keys is the set of *)
(* the keys that the dict has, of "default" and "subdescr".  A row of the  *)
(* download is its description, sub-description, Type, amount and Statut;  *)
(* its account is "" until data.apply reaches it.  The rows all have the   *)
(* same date.                                                              *)

\* find_account ends the run with sys.exit(1)
SysExit1 == "sys.exit(1)"

\* find_account with the default before the sub-descriptions
find_account_default_first(ha_conf, descr, sub_descr, don) ==
    IF don THEN "746_Dons"
    ELSE IF descr \notin DOMAIN ha_conf THEN SysExit1
    ELSE IF "default" \in ha_conf[descr].keys THEN ha_conf[descr].default
    ELSE IF /\ "subdescr" \in ha_conf[descr].keys
            /\ sub_descr \in DOMAIN ha_conf[descr].subdescr
         THEN ha_conf[descr].subdescr[sub_descr]
    ELSE SysExit1

\* find_account
find_account(ha_conf, descr, sub_descr, don) ==
    IF don THEN "746_Dons"
    ELSE IF descr \notin DOMAIN ha_conf THEN SysExit1
    ELSE IF /\ "subdescr" \in ha_conf[descr].keys
            /\ sub_descr \in DOMAIN ha_conf[descr].subdescr
         THEN ha_conf[descr].subdescr[sub_descr]
    ELSE IF "default" \in ha_conf[descr].keys THEN ha_conf[descr].default
    ELSE SysExit1

\* what find_account prints before sys.exit(1)
find_account_prints(ha_conf, descr, sub_descr) ==
    IF descr \notin DOMAIN ha_conf
    THEN [text |-> "Missing description: ", d |-> descr]
    ELSE [text |-> "Missing sub-description for ", d |-> descr, sd |-> sub_descr]

\* this_find_account
this_find_account(ha_conf, row) ==
    find_account(ha_conf, row.description, row.sub_description,
                 "Don unique" = row.Type)

\* qif_entry of ha_qif with the amount on the split line as it is on the
\* T line
qif_entry_ha_same_sign(row) ==
    LET this_amount == row.amount
    IN  << QifLine("D", "date"), QifLine("T", this_amount),
           QifLine("N", "HA"), QifLine("P", "fullname"),
           QifLine("M", row.description),
           QifLine("S", row.account), QifLine("$", this_amount),
           QifLine("E", "remark") >>

\* qif_entry of ha_qif
qif_entry_ha(row) ==
    LET this_amount == row.amount
    IN  << QifLine("D", "date"), QifLine("T", this_amount),
           QifLine("N", "HA"), QifLine("P", "fullname"),
           QifLine("M", row.description),
           QifLine("S", row.account), QifLine("$", -this_amount),
           QifLine("E", "remark") >>

\* make_qif of ha_qif
make_qif_ha(rows) ==
    LET paid == SelectSeq(rows, LAMBDA row : row.amount # 0)
    IN  qif_header("512151_Helloasso")
        \o join_transactions([i \in DOMAIN paid |-> qif_entry_ha(paid[i])])

\* the dicts that the config has for the description Adhesion: with or
\* without a default, with or without sub-descriptions, which are none or
\* Enfant
HaEntries ==
    UNION { { [keys |-> keys, default |-> "7561_Cotisations",
               subdescr |-> [sd \in d |-> "7562_Cotisations enfants"]] :
              d \in IF "subdescr" \in keys THEN SUBSET { "Enfant" } ELSE { {} } } :
            keys \in SUBSET { "default", "subdescr" } }

\* the configs: none or one dict for Adhesion, none for Stage
HaConfigs ==
    UNION { [d -> HaEntries] : d \in SUBSET { "Adhesion" } }

\* the rows of the download of Helloasso: the valid ones, and one that
\* was refused
HaRows ==
    { [description |-> d, sub_description |-> sd, Type |-> t,
       amount |-> a, Statut |-> "Valide", account |-> ""] :
        d \in { "Adhesion", "Stage" }, sd \in { "Adulte", "Enfant" },
        t \in { "Don unique", "Billet" }, a \in { 0, 1000000 } }
    \cup { [description |-> "Adhesion", sub_description |-> "Enfant",
            Type |-> "Billet", amount |-> 1000000, Statut |-> "Refuse",
            account |-> ""] }

InitHa ==
    /\ ha_config \in HaConfigs
    /\ data \in UNION { [1..n -> HaRows] : n \in 0..MaxDownload }
    /\ gnucash = << >>
    /\ account_balances = << >>
    /\ data_view = << >>
    /\ row_index = 0
    /\ qif = NoQif
    /\ qpc = "ha"
    /\ stdout = << >>
    /\ ReportsIdle
    /\ BudgetIdle
    /\ CanonicalIdle
    /\ CompareIdle

\* data.apply(this_find_account, axis=1) on the next row of the download
HaFindAccount ==
    /\ qpc = "ha"
    /\ row_index < Len(data)
    /\ LET row == data[row_index + 1]
           ret == this_find_account(ha_config, row)
       IN  IF ret = SysExit1
           THEN /\ stdout' = Append(stdout,
                                    find_account_prints(ha_config, row.description,
                                                        row.sub_description))
                /\ qpc' = "exit 1"
                /\ UNCHANGED <<data, row_index>>
           ELSE /\ data' = [data EXCEPT ![row_index + 1].account = ret]
                /\ row_index' = row_index + 1
                /\ UNCHANGED <<qpc, stdout>>
    /\ UNCHANGED <<gnucash, account_balances, ha_config, data_view, qif>>
    /\ UNCHANGED <<bilanVars, budgetVars, canonicalVars, compareVars>>

\* the rest of get_data: the view of the rows that are valid
HaGetData ==
    /\ qpc = "ha"
    /\ row_index = Len(data)
    /\ data_view' = SelectSeq(data, LAMBDA row : row.Statut = "Valide")
    /\ qpc' = "ha view"
    /\ UNCHANGED <<gnucash, account_balances, ha_config, data, row_index, qif,
                   stdout>>
    /\ UNCHANGED <<bilanVars, budgetVars, canonicalVars, compareVars>>

\* qif = make_qif(data_view), written or printed
HaMakeQif ==
    /\ qpc = "ha view"
    /\ qif' = make_qif_ha(data_view)
    /\ qpc' = "ha qif"
    /\ UNCHANGED <<gnucash, account_balances, ha_config, data, data_view,
                   row_index, stdout>>
    /\ UNCHANGED <<bilanVars, budgetVars, canonicalVars, compareVars>>

NextQif ==
    \/ GetBalances
    \/ GenerateQif
    \/ FfaGetData
    \/ FfaMakeQif
    \/ HaFindAccount
    \/ HaGetData
    \/ HaMakeQif

SpecQif == (InitNouveaux \/ InitFfa \/ InitHa) /\ [][NextQif]_vars

-----------------------------------------------------------------------------
(* A run of one of the scripts.                                            *)

Init ==
    \/ InitReports(SmallSnapshots \cup DimeSnapshots)
    \/ InitBudget
    \/ InitCanonical
    \/ InitCompare
    \/ InitNouveaux
    \/ InitFfa
    \/ InitHa

Next == NextReports \/ NextBudget \/ NextCanonical \/ NextCompare \/ NextQif

Spec == Init /\ [][Next]_vars

-----------------------------------------------------------------------------
(* Reading a sheet.                                                        *)

IsAssetGroup(group) == "brute" \in DOMAIN group

\* the (account_name, balance) tuples of a group, whatever its column
GroupEntries(s, key) ==
    IF key \notin DOMAIN s THEN << >>
    ELSE IF IsAssetGroup(s[key])
         THEN s[key].brute.entries \o s[key].amort.entries
         ELSE s[key].entries

EntriesOf(s, key, account_name) ==
    SelectSeq(GroupEntries(s, key), LAMBDA entry : entry[1] = account_name)

EnteredIn(s, key, account_name) == EntriesOf(s, key, account_name) # << >>

\* the groups in which the account has an entry
GroupsOf(s, account_name) == { key \in DOMAIN s : EnteredIn(s, key, account_name) }

RECURSIVE CountEntries(_, _, _)
CountEntries(s, keys, account_name) ==
    IF keys = {} THEN 0
    ELSE LET key == CHOOSE k \in keys : TRUE
         IN  Len(EntriesOf(s, key, account_name))
             + CountEntries(s, keys \ {key}, account_name)

\* the number of entries the account has in the whole sheet
NumEntries(s, account_name) == CountEntries(s, DOMAIN s, account_name)

Abs(x) == IF x < 0 THEN -x ELSE x

\* the accounts the loop of construct_reports has processed
Processed == { accounts[i] : i \in 1..idx }

-----------------------------------------------------------------------------
(* Claims on the classification of one account.                            *)

\* C1: a leaf account whose code starts with 4091, whatever the sign of its
\* balance, is entered in 'avances' and in neither 'creances_autres' nor
\* 'dettes_fournisseurs', the groups fed by the general 40 rule.
C1_Only4091Rule ==
    \A account \in Processed :
        StartsWith(account[1], 4091) =>
            /\ EnteredIn(sheet, "avances", account[1])
            /\ ~EnteredIn(sheet, "creances_autres", account[1])
            /\ ~EnteredIn(sheet, "dettes_fournisseurs", account[1])

\* the rules of the three tables that apply to a balance of this sign, the
\* exclusions of 4091 and 4191 left aside
RulesFor(balance) ==
    LET any == AssetsAnySign \o LiabilitiesAnySign \o PLRules
        pos == IF balance > 0 THEN AssetsPositive(<< >>) ELSE << >>
        neg == IF balance < 0 THEN LiabilitiesNegative(<< >>) ELSE << >>
        all == any \o pos \o neg
    IN  { all[i] : i \in DOMAIN all }

MatchingRules(account_name, balance) ==
    { rule \in RulesFor(balance) : StartsWith(account_name, rule.prefix) }

LongestMatching(account_name, balance) ==
    LET matching == MatchingRules(account_name, balance)
    IN  { rule \in matching :
            \A other \in matching : Len(Str(other.prefix)) <= Len(Str(rule.prefix)) }

\* C2: when rules with prefixes of different lengths match a code, the account
\* is entered only in the group of the longest matching prefix.
C2_LongestPrefixWins ==
    \A account \in Processed :
        LongestMatching(account[1], account[2]) # MatchingRules(account[1], account[2])
        => GroupsOf(sheet, account[1])
             = { rule.key : rule \in LongestMatching(account[1], account[2]) }

\* an account of the prefixes 40..46 and 51, 4091 and 4191 excepted
IsThirdParty(account_name) ==
    /\ \E prefix \in (40..46) \cup {51} : StartsWith(account_name, prefix)
    /\ ~StartsWith(account_name, 4091)
    /\ ~StartsWith(account_name, 4191)

\* the account has exactly one entry in the sheet, of this magnitude, in an
\* asset group (two columns) when onAssets and in a one-column group otherwise
OneEntryOn(s, account_name, onAssets, magnitude) ==
    /\ NumEntries(s, account_name) = 1
    /\ \A key \in GroupsOf(s, account_name) :
          /\ IsAssetGroup(s[key]) = onAssets
          /\ Abs(EntriesOf(s, key, account_name)[1][2]) = magnitude

\* C3: an account of the prefixes 40..46 and 51 (4091, 4191 excepted) has
\* exactly one entry, on the asset side when its balance is positive and on
\* the liabilities side when it is negative; the run on the opposite balance
\* gives the single entry on the other side, with the same magnitude.
C3_SignRouting ==
    \A account \in Processed :
        IsThirdParty(account[1]) =>
            /\ OneEntryOn(sheet, account[1], account[2] > 0, Abs(account[2]))
            /\ OneEntryOn(build_account(EmptySheet, account[1], -account[2]),
                          account[1], account[2] < 0, Abs(account[2]))

C3_Witness ==
    /\ idx = 1
    /\ accounts[1] = <<Str(401), -1000000>>
    /\ EnteredIn(sheet, "dettes_fournisseurs", Str(401))
    /\ EnteredIn(build_account(EmptySheet, Str(401), 1000000), "creances_autres", Str(401))

\* C4: the entry a negative account of the prefixes 40..46 and 51 gets in a
\* liabilities group carries the negated ledger balance.
C4_LiabilityEntryNegated ==
    \A account \in Processed :
        /\ \E prefix \in (40..46) \cup {51} : StartsWith(account[1], prefix)
        /\ account[2] < 0
        => \A key \in GroupsOf(sheet, account[1]) :
              ~IsAssetGroup(sheet[key])
              => \A i \in DOMAIN EntriesOf(sheet, key, account[1]) :
                    EntriesOf(sheet, key, account[1])[i][2] = -account[2]

-----------------------------------------------------------------------------
(* Claims on the totals of the groups.                                     *)

\* the sum of the balances of a list of entries, from its last entry down
ExactSum(entries) ==
    LET upTo[i \in 0..Len(entries)] ==
            IF i = 0 THEN 0 ELSE upTo[i - 1] + entries[Len(entries) + 1 - i][2]
    IN  upTo[Len(entries)]

\* the one or two lists of entries of a group, each with its balance
Columns(group) ==
    IF IsAssetGroup(group) THEN {group.brute, group.amort} ELSE {group}

\* C10: after sum_all_entries the balance of every group, and of each of the
\* columns 'brute' and 'amort' of an asset group, is the exact sum of the
\* balances of its entries; ten entries of 0.10 give exactly 1.00.
C10_ExactTotals ==
    pc = "summed" =>
        /\ \A key \in DOMAIN sheet :
              \A column \in Columns(sheet[key]) :
                  column.balance = ExactSum(column.entries)
        /\ \A key \in DOMAIN sheet :
              \A column \in Columns(sheet[key]) :
                  /\ Len(column.entries) = 10
                  /\ \A i \in 1..10 : column.entries[i][2] = 1000
                  => column.balance = 10000

C10_Witness ==
    /\ pc = "summed"
    /\ "achat_marchandises" \in DOMAIN sheet
    /\ Len(sheet["achat_marchandises"].entries) = 10
    /\ \A i \in 1..10 : sheet["achat_marchandises"].entries[i][2] = 1000
    /\ sheet["achat_marchandises"].balance = 10000

-----------------------------------------------------------------------------
(* Claims on the budget tracking.                                          *)

\* the number of lines of a config column that list the account
TimesListed(config_column, account) ==
    Cardinality({ i \in DOMAIN config_column :
                    /\ Len(config_column[i]) > 1
                    /\ account \in ToSet(config_column[i][3]) })

\* C5, as stated: when no account is reported missing, the line totals of the
\* expenses column add up to the raw balances of the accounts in '6', and
\* those of the income column to the raw balances of the accounts in '7'.
C5_Reconciled ==
    bpc # "start" /\ missing = {} =>
        /\ SumColumn(expenses) = ClassSum(balances, 6)
        /\ SumColumn(income) = ClassSum(balances, 7)

\* every account of the snapshot in '6' is listed by one line of expenses and
\* none of income, every account in '7' by one line of income and none of
\* expenses, and no line lists an account of the snapshot of another class
ListedOnceOnItsSide ==
    \A account \in DOMAIN balances :
        /\ TimesListed(config[1], account) = (IF account[1] = 6 THEN 1 ELSE 0)
        /\ TimesListed(config[2], account) = (IF account[1] = 7 THEN 1 ELSE 0)

\* C5, amended: the two sums agree when moreover every account of the snapshot
\* that a line lists is listed once, on the side of its class.
C5_ReconciledWhenListedOnce ==
    bpc # "start" /\ missing = {} /\ ListedOnceOnItsSide =>
        /\ SumColumn(expenses) = ClassSum(balances, 6)
        /\ SumColumn(income) = ClassSum(balances, 7)

C5_Witness ==
    /\ bpc = "listed"
    /\ missing = {}
    /\ ListedOnceOnItsSide
    /\ { Str(607), Str(615), Str(706) } \subseteq DOMAIN balances
    /\ SumColumn(expenses) = balances[Str(607)] + balances[Str(615)]
    /\ SumColumn(income) = balances[Str(706)]

\* the dict without one of its accounts
Without(d, account) == [k \in DOMAIN d \ {account} |-> d[k]]

\* C6: an account of the snapshot in '6' or '7' that no line of either column
\* lists is in the set reported missing and its balance is in no line total;
\* an account that is not in '6' or '7' is never reported missing.
C6_MissingReported ==
    bpc # "start" =>
        /\ \A account \in DOMAIN balances :
              /\ account[1] \in {6, 7}
              /\ TimesListed(config[1], account) = 0
              /\ TimesListed(config[2], account) = 0
              => /\ account \in missing
                 /\ expenses = compute_balance_sheet_list(config[1],
                                                          Without(balances, account))
                 /\ income = compute_balance_sheet_list(config[2],
                                                        Without(balances, account))
        /\ \A account \in missing : account[1] \in {6, 7}

C6_Witness ==
    /\ bpc = "listed"
    /\ DOMAIN balances = BudgetNames
    /\ TimesListed(config[1], Str(4091)) = 0
    /\ TimesListed(config[2], Str(4091)) = 0
    /\ TimesListed(config[1], Str(607)) = 1
    /\ missing = { Str(615), Str(706) }
    /\ SumColumn(expenses) = balances[Str(607)]

\* C7: once the result line is in, the total of the expenses column equals
\* the total of the income column shown with its sign negated.
C7_ResultClosesColumns ==
    bpc = "done" =>
        TotalRealised(balance_sheet[1], 1) = TotalRealised(balance_sheet[2], -1)

C7_Witness ==
    /\ bpc = "done"
    /\ TotalRealised(balance_sheet[2], -1) = 2500000
    /\ TotalRealised(balance_sheet[1], 1) = 2500000
    /\ SumColumn(expenses) = 1000000

\* the result line is the last line of the column
HasResultLine(column) ==
    /\ column # << >>
    /\ column[Len(column)][1] = ResultLabel

\* C8: the result line goes into the column that is short: the expenses when
\* the income exceeds them, the income when the expenses exceed it.
C8_ResultOnShortSide ==
    bpc = "done" =>
        /\ -SumColumn(income) > SumColumn(expenses)
              => HasResultLine(balance_sheet[1]) /\ balance_sheet[2] = income
        /\ SumColumn(expenses) > -SumColumn(income)
              => HasResultLine(balance_sheet[2]) /\ balance_sheet[1] = expenses

\* the result get_balance_sheet would inject for this dict of balances
ResultFor(d) ==
    result_of(SumColumn(compute_balance_sheet_list(config[1], d)),
              SumColumn(compute_balance_sheet_list(config[2], d)))

\* the balance of the injected result line
InjectedResult == balance_sheet[1][Len(balance_sheet[1])][3]

\* C9, as stated: the result is the income (its sum negated) minus the
\* expenses, and the accounts that are not in '6' or '7' do not affect it.
C9_ResultOfClasses6And7 ==
    bpc = "done" =>
        /\ InjectedResult = (-SumColumn(income)) - SumColumn(expenses)
        /\ InjectedResult
             = ResultFor([k \in { a \in DOMAIN balances : a[1] \in {6, 7} } |-> balances[k]])

\* the snapshot {607: 100.00, 706: -250.00, 4091: 30.00}, 607 in a line of
\* expenses, 706 in a line of income
IsExample ==
    /\ balances = (Str(607) :> 1000000) @@ (Str(706) :> -2500000) @@ (Str(4091) :> 300000)
    /\ TimesListed(config[1], Str(607)) = 1 /\ TimesListed(config[2], Str(607)) = 0
    /\ TimesListed(config[2], Str(706)) = 1 /\ TimesListed(config[1], Str(706)) = 0
    /\ TimesListed(config[1], Str(4091)) = 0 /\ TimesListed(config[2], Str(4091)) = 0

\* C9, amended: the result is the income minus the expenses, the accounts
\* that no line of the config lists do not affect it, and in the example the
\* expenses are 100.00, the income 250.00 and the result 150.00 is the last
\* line of the expenses.
C9_ResultOfListedAccounts ==
    bpc = "done" =>
        /\ HasResultLine(balance_sheet[1])
        /\ balance_sheet[2] = income
        /\ InjectedResult = (-SumColumn(income)) - SumColumn(expenses)
        /\ \A account \in DOMAIN balances :
              TimesListed(config[1], account) + TimesListed(config[2], account) = 0
              => InjectedResult = ResultFor(Without(balances, account))
        /\ IsExample =>
              /\ SumColumn(expenses) = 1000000
              /\ -SumColumn(income) = 2500000
              /\ InjectedResult = 1500000

C9_Witness ==
    /\ bpc = "done"
    /\ IsExample
    /\ InjectedResult = 1500000
    /\ HasResultLine(balance_sheet[1])

-----------------------------------------------------------------------------
(* Claims on the warnings of the budget tracking.                          *)

\* the script has printed the 'Unexpected imbalance' warning
ImbalanceWarned ==
    \E i \in DOMAIN stdout : stdout[i].text = "Unexpected imbalance:"

\* the script has printed the 'Missing accounts from config' warning
MissingWarned ==
    \E i \in DOMAIN stdout : stdout[i].text = "Missing accounts from config: "

\* the accounts of the snapshot in '6' or '7' that no line of the config lists
Unlisted ==
    { account \in DOMAIN balances :
        /\ account[1] \in {6, 7}
        /\ TimesListed(config[1], account) + TimesListed(config[2], account) = 0 }

\* the class total of the raw balances and the total of the lines of the
\* column differ once rounded to two decimals, for class 6 or for class 7
TotalsDiffer ==
    \/ Round2(ClassSum(balances, 6)) # Round2(SumColumn(expenses))
    \/ Round2(ClassSum(balances, 7)) # Round2(SumColumn(income))

\* C11: the consistency check never fails the run.  For every snapshot and
\* config, once get_balance_sheet_as_list has run it has returned the two
\* columns [expenses, income], one line for each line of the config, whether
\* or not an imbalance or a missing account was found; the imbalance warning
\* and the missing accounts warning are each printed when their condition
\* holds, whatever the other one found.
C11_CheckIsAdvisory ==
    bpc # "start" =>
        /\ bpc \in {"listed", "done"}
        /\ Len(balance_sheet) = 2
        /\ SubSeq(balance_sheet[1], 1, Len(expenses)) = expenses
        /\ balance_sheet[2] = income
        /\ Len(expenses) = Len(config[1])
        /\ Len(income) = Len(config[2])
        /\ TotalsDiffer => ImbalanceWarned
        /\ Unlisted # {} => MissingWarned

\* both warnings were printed and both columns returned
C11_Witness ==
    /\ bpc = "listed"
    /\ TotalsDiffer
    /\ Unlisted # {}
    /\ ImbalanceWarned
    /\ MissingWarned
    /\ balance_sheet = << expenses, income >>
    /\ Len(expenses) = 1
    /\ Len(income) = 1

\* C12: the 'Unexpected imbalance' warning is printed if and only if the
\* class total of the raw balances and the sum of the line totals differ
\* after rounding to two decimals, for class 6 or for class 7; it is printed
\* once and shows the two figures of the raw balances and the two figures of
\* the lines, expenses then income.
C12_ImbalanceWarning ==
    bpc # "start" =>
        /\ ImbalanceWarned <=> TotalsDiffer
        /\ imbalance <=> TotalsDiffer
        /\ \A i, j \in DOMAIN stdout :
              stdout[i].text = "Unexpected imbalance:" =>
                 /\ stdout[i].balances = << Round2(ClassSum(balances, 6)),
                                            Round2(ClassSum(balances, 7)) >>
                 /\ stdout[i].display = << Round2(SumColumn(expenses)),
                                           Round2(SumColumn(income)) >>
                 /\ stdout[j].text = "Unexpected imbalance:" => i = j

\* the warning is printed for class 7 alone: the expenses differ by less
\* than half a cent
C12_Witness ==
    /\ bpc = "listed"
    /\ ImbalanceWarned
    /\ ClassSum(balances, 6) # SumColumn(expenses)
    /\ Round2(ClassSum(balances, 6)) = Round2(SumColumn(expenses))
    /\ Round2(ClassSum(balances, 7)) # Round2(SumColumn(income))

-----------------------------------------------------------------------------
(* Claims on the sheet of the balance sheet.                               *)

\* C16: a 4091 account with a positive balance is left out of the general
\* 40 rule of the assets: it has no entry in 'creances_autres'.  A 4191
\* account with a negative balance is left out of the 41 rule of the
\* liabilities: it has an entry in 'dettes_avances' and none in
\* 'dettes_autres'.
C16_SpecialCasesExcluded ==
    \A p \in Processed :
        /\ Slice(p[1], 4) = Str(4091) /\ p[2] > 0
           => ~EnteredIn(sheet, "creances_autres", p[1])
        /\ Slice(p[1], 4) = Str(4191) /\ p[2] < 0
           => /\ EnteredIn(sheet, "dettes_avances", p[1])
              /\ ~EnteredIn(sheet, "dettes_autres", p[1])

\* a ledger with both accounts has been classified
C16_Witness ==
    /\ pc = "summed"
    /\ \E p, q \in Processed :
          /\ p[1] = Str(4091) /\ p[2] > 0
          /\ q[1] = Str(4191) /\ q[2] < 0
          /\ EnteredIn(sheet, "avances", p[1])
          /\ EnteredIn(sheet, "dettes_avances", q[1])

\* C17: the three builds together give one account no entry, one entry or
\* two entries, never more, whatever its code and its balance.
C17_AtMostTwoEntries ==
    \A p \in Processed : NumEntries(sheet, p[1]) \in {0, 1, 2}

\* an account with two entries
C17_Witness ==
    /\ idx = 1
    /\ NumEntries(sheet, accounts[1][1]) = 2

-----------------------------------------------------------------------------
(* Claims on the reports of construct_reports.                             *)

\* C13: every account of the snapshot that no rule of build_assets,
\* build_liabilities or build_p_l matches is named in a missing accounts
\* warning that construct_reports prints.
C13_UnmatchedAccountReported ==
    pc = "rendered" =>
        \A p \in Processed :
            NumEntries(sheet, p[1]) = 0 =>
                \E i \in DOMAIN stdout :
                    /\ "m" \in DOMAIN stdout[i]
                    /\ p[1] \in stdout[i].m

\* the sum of the field net of the group lines of the assets
TotalNet(latex) ==
    LET total[i \in 0..Len(latex)] ==
            IF i = 0 THEN 0
            ELSE IF latex[i].kind = "group" THEN total[i - 1] + latex[i].net
                 ELSE total[i - 1]
    IN  total[Len(latex)]

\* the sum of the field n of the group lines of the liabilities
TotalN(latex) ==
    LET total[i \in 0..Len(latex)] ==
            IF i = 0 THEN 0
            ELSE IF latex[i].kind = "group" THEN total[i - 1] + latex[i].n
                 ELSE total[i - 1]
    IN  total[Len(latex)]

\* C14: the liabilities of the balance sheet have a line for the result of
\* the period, and with it the total of the liabilities equals the total of
\* the assets.
C14_ResultLineBalancesSheet ==
    pc = "rendered" =>
        /\ \E i \in DOMAIN liabilities_latex :
              /\ liabilities_latex[i].kind = "group"
              /\ liabilities_latex[i].title = "Resultat de l'exercice"
        /\ TotalN(liabilities_latex) = TotalNet(assets_latex)

\* C15: once sum_all_entries has run, a column of an asset group that got no
\* entry still has the sentinel as its balance, which is not zero.
C15_UnsetSurvivesSum ==
    pc \in {"summed", "rendered"} =>
        \A key \in DOMAIN sheet :
            IsAssetGroup(sheet[key]) =>
                /\ sheet[key].brute.entries = << >>
                   => sheet[key].brute.balance = PiUnset /\ PiUnset # 0
                /\ sheet[key].amort.entries = << >>
                   => sheet[key].amort.balance = PiUnset /\ PiUnset # 0

\* the rows of the section whose group line is line i: the lines after it up
\* to the next spacer
RowsOf(latex, i) ==
    { j \in DOMAIN latex :
        /\ j > i
        /\ latex[j].kind = "row"
        /\ \A k \in i + 1 .. j : latex[k].kind # "spacer" }

RECURSIVE SumNet(_, _)
SumNet(latex, rows) ==
    IF rows = {} THEN 0
    ELSE LET j == CHOOSE j \in rows : TRUE
         IN  latex[j].net + SumNet(latex, rows \ {j})

\* C18: in the section of an asset group the line of the group shows the sum
\* of 'brute', the sum of 'amort' with its sign changed, and as net the first
\* minus the second; every row of an account has net = brute - amort of the
\* figures it shows; and the net of the group is the sum of the nets of its
\* rows.
C18_NetIsGrossMinusContra ==
    pc = "rendered" =>
        \A i \in DOMAIN assets_latex :
            LET line == assets_latex[i]
            IN  /\ line.kind \in {"group", "row"} => line.net = line.brut - line.amort
                /\ line.kind = "group" =>
                      /\ \E k \in DOMAIN AssetSections :
                            /\ AssetSections[k][1] = line.title
                            /\ AssetSections[k][2] \in DOMAIN sheet
                            /\ line.brut = sheet[AssetSections[k][2]].brute.balance
                            /\ line.amort = -sheet[AssetSections[k][2]].amort.balance
                      /\ line.net = SumNet(assets_latex, RowsOf(assets_latex, i))

\* a group with an asset and its depreciation, each on its row
C18_Witness ==
    /\ pc = "rendered"
    /\ \E i \in DOMAIN assets_latex :
          /\ assets_latex[i].kind = "group"
          /\ assets_latex[i].title = "Immobilisations Corporelles"
          /\ assets_latex[i].brut = 300000
          /\ assets_latex[i].amort = 1000000
          /\ assets_latex[i].net = -700000
          /\ Cardinality(RowsOf(assets_latex, i)) = 2
          /\ assets_latex[i + 2].amort = 1000000
          /\ assets_latex[i + 2].net = -1000000

\* C15, amended: a column of an asset group carries the sentinel from the
\* creation of the group until sum_all_entries; once sum_all_entries has run,
\* a column that got no entry has the balance 0 of an empty sum.
C15_UnsetUntilSummed ==
    \A key \in DOMAIN sheet :
        IsAssetGroup(sheet[key]) =>
            \A column \in {sheet[key].brute, sheet[key].amort} :
                /\ pc = "build" => column.balance = PiUnset
                /\ pc \in {"summed", "rendered"} /\ column.entries = << >>
                   => column.balance = 0

\* an asset with no depreciation, after the sums
C15_Witness ==
    /\ pc = "summed"
    /\ "immo_corp" \in DOMAIN sheet
    /\ sheet["immo_corp"].brute.entries = << << Str(218), 1000 >> >>
    /\ sheet["immo_corp"].amort.entries = << >>
    /\ sheet["immo_corp"].amort.balance = 0

-----------------------------------------------------------------------------
(* Claims on una_canonical.                                                *)

\* the first line of the file is one of the two headers
Recognised == readline(book_file) \in {ebp_v19, ebp_v21}

-----------------------------------------------------------------------------
(* Claims on the snapshot.                                                 *)

\* C20: no step of construct_reports or of get_balance_sheet changes the
\* snapshot: the mapping from account to balance keeps its keys and values.
C20_SnapshotNotMutated == [][accounts' = accounts /\ balances' = balances]_vars

\* get_balance_sheet has run on a snapshot of four accounts
C20_Witness ==
    /\ bpc = "done"
    /\ DOMAIN balances = BudgetNames
    /\ TimesListed(config[1], Str(607)) = 1
    /\ TimesListed(config[2], Str(706)) = 1

-----------------------------------------------------------------------------
(* Claims on the order of the accounts.                                    *)

\* the list with its items i and i + 1 exchanged
Swapped(list, i) ==
    [j \in DOMAIN list |-> IF j = i THEN list[i + 1]
                           ELSE IF j = i + 1 THEN list[i] ELSE list[j]]

\* the same ledger with two neighbours exchanged, and in the opposite order
OtherOrders(list) ==
    { Swapped(list, i) : i \in 1..(Len(list) - 1) }
    \cup { [j \in DOMAIN list |-> list[Len(list) + 1 - j]] }

\* the orders in which a dict can give its keys
KeyOrders(keys) ==
    { order \in [1..Cardinality(keys) -> keys] :
        \A i, j \in DOMAIN order : order[i] = order[j] => i = j }

\* sum([balance for account, balance in balances.items() if account in
\* these_accounts]) with the items of the dict in the given order
SumInOrder(d, order, these_accounts) ==
    LET upTo[i \in 0..Len(order)] ==
            IF i = 0 THEN 0
            ELSE IF order[i] \in these_accounts THEN upTo[i - 1] + d[order[i]]
                 ELSE upTo[i - 1]
    IN  upTo[Len(order)]

\* the column has the line totals that the dict gives in this order
ColumnInOrder(column, config_column, order) ==
    /\ Len(column) >= Len(config_column)
    /\ \A i \in DOMAIN config_column :
          IF Len(config_column[i]) = 1 THEN column[i] = config_column[i]
          ELSE column[i][3] = SumInOrder(balances, order, ToSet(config_column[i][3]))

\* the two sheets have the same groups, each with the same set of entries
\* and the same total in each of its columns
SameStatement(s, t) ==
    /\ DOMAIN s = DOMAIN t
    /\ \A key \in DOMAIN s :
          /\ IsAssetGroup(s[key]) = IsAssetGroup(t[key])
          /\ IF IsAssetGroup(s[key])
             THEN /\ ToSet(s[key].brute.entries) = ToSet(t[key].brute.entries)
                  /\ ToSet(s[key].amort.entries) = ToSet(t[key].amort.entries)
                  /\ s[key].brute.balance = t[key].brute.balance
                  /\ s[key].amort.balance = t[key].amort.balance
             ELSE /\ ToSet(s[key].entries) = ToSet(t[key].entries)
                  /\ s[key].balance = t[key].balance

RowPairs(latex) ==
    { << latex[i].account_name, latex[i + 1].account_name >> :
        i \in { j \in 1..(Len(latex) - 1) :
                  latex[j].kind = "row" /\ latex[j + 1].kind = "row" } }

\* C22: in the latex of the assets and of the liabilities the rows of a
\* group follow each other in ascending order of the account names, compared
\* as strings, whatever the order in which the accounts were added.
C22_RowsSorted ==
    pc = "rendered" =>
        \A pair \in RowPairs(assets_latex) \cup RowPairs(liabilities_latex) :
            pair[1] = pair[2] \/ LexLess(pair[1], pair[2])

\* 4091 was added before 401 and is listed after it
C22_Witness ==
    /\ pc = "rendered"
    /\ Len(accounts) = 2
    /\ accounts[1][1] = Str(4091)
    /\ accounts[2][1] = Str(401)
    /\ << Str(401), Str(4091) >> \in RowPairs(liabilities_latex)

\* C27: when every account of the snapshot in '6' is listed by one line of
\* the expenses and none of the income, every account in '7' by one line of
\* the income and none of the expenses, and no line lists an account of
\* another class, get_balance_sheet_as_list prints neither warning.
C27_NoWarningWhenWellRouted ==
    bpc # "start" /\ ListedOnceOnItsSide =>
        /\ ~ImbalanceWarned
        /\ ~MissingWarned
        /\ stdout = << >>

\* an expense account and an income account, each in its line, and an
\* account of another class that no line lists
C27_Witness ==
    /\ bpc = "listed"
    /\ ListedOnceOnItsSide
    /\ DOMAIN balances = { Str(607), Str(706), Str(4091) }
    /\ stdout = << >>
    /\ Len(expenses) = 1
    /\ Len(income) = 1

\* the groups build_assets can create
AssetGroups ==
    { AssetsAnySign[i].key : i \in DOMAIN AssetsAnySign }
    \cup UNION { { AssetsPositive(name)[i].key : i \in DOMAIN AssetsPositive(name) } :
                 name \in { Str(40), Str(4091) } }

\* the number of group lines that the latex of the assets has for the group
TimesEmitted(latex, key) ==
    Cardinality({ i \in DOMAIN latex :
                    /\ latex[i].kind = "group"
                    /\ \E k \in DOMAIN AssetSections :
                          /\ AssetSections[k][1] = latex[i].title
                          /\ AssetSections[k][2] = key })

\* C28: every group of the assets that is in the sheet has exactly one
\* section in the latex of build_assets_latex.
C28_EachAssetGroupOnce ==
    pc = "rendered" =>
        \A key \in AssetGroups \cap DOMAIN sheet :
            TimesEmitted(assets_latex, key) = 1

\* the number of places of the sequence that hold the value
Occurrences(seq, v) ==
    Cardinality({ i \in DOMAIN seq : seq[i] = v })

\* no label is twice in the column
DistinctLabels(config_column) ==
    \A i, j \in DOMAIN config_column :
        config_column[i][1] = config_column[j][1] => i = j

\* the label of budget 1 that the i-th label of budget 2 follows in
\* budget 2, the first label of budget 1 when it follows none
FollowedLabel(labels_1, labels_2, i) ==
    LET before == { j \in 1..(i - 1) : labels_2[j] \in ToSet(labels_1) }
    IN  IF before = {}
        THEN labels_1[1]
        ELSE labels_2[CHOOSE j \in before : \A k \in before : k <= j]

\* the label of budget 1 that is the nearest before the j-th place of the
\* output
NearestBefore(labels_1, out, j) ==
    LET before == { k \in 1..(j - 1) : out[k] \in ToSet(labels_1) }
    IN  IF before = {}
        THEN None
        ELSE out[CHOOSE k \in before : \A m \in before : m <= k]

\* C25: for two columns that are not empty and repeat no label, the output
\* of compare_budget_lists has the labels of budget 1 once each in the order
\* of budget 1, has each label that only budget 2 has once, after the label
\* of budget 1 that it follows in budget 2 and before the next label of
\* budget 1, and each line has the amounts of its label in the two
\* budgets, 0 for a budget that gives the label no amount.
C25_ComparisonComplete ==
    ( /\ kpc = "returned"
      /\ config_1_column # << >>
      /\ config_2_column # << >>
      /\ DistinctLabels(config_1_column)
      /\ DistinctLabels(config_2_column) )
    => LET labels_1 == labels_of(config_1_column)
           labels_2 == labels_of(config_2_column)
           out == [j \in DOMAIN compared |-> compared[j][1]]
       IN  /\ SelectSeq(out, LAMBDA l : l \in ToSet(labels_1)) = labels_1
           /\ \A i \in DOMAIN labels_2 :
                 labels_2[i] \notin ToSet(labels_1) =>
                    /\ Occurrences(out, labels_2[i]) = 1
                    /\ \A j \in DOMAIN out :
                          out[j] = labels_2[i] =>
                             NearestBefore(labels_1, out, j)
                                = FollowedLabel(labels_1, labels_2, i)
           /\ \A j \in DOMAIN compared :
                 /\ compared[j][2] =
                       amount_get(label_to_amount(config_1_column), out[j])
                 /\ compared[j][3] =
                       amount_get(label_to_amount(config_2_column), out[j])

\* C26: compare_budget_lists returns for every pair of columns, and for an
\* empty column it returns the single line "Empty budgets aren't allowed"
\* without a pass of the for loop or of the while loop.
C26_Terminates ==
    /\ <>(kpc = "returned")
    /\ []( ( /\ kpc = "returned"
             /\ (config_1_column = << >> \/ config_2_column = << >>) )
           => /\ compared = EmptyBudgets
              /\ for_index = 0
              /\ out_labels = << >> )

\* budget 1 has two labels in a row each followed in budget 2 by a label
\* that budget 1 does not have, and the comparison returned
C26_Witness ==
    /\ kpc = "returned"
    /\ labels_of(config_1_column) = <<"b", "c">>
    /\ labels_of(config_2_column) = <<"x", "c", "y">>
    /\ DOMAIN additions = { "b", "c" }
    /\ Len(compared) = 5

\* get_balances has returned
BalancesReturned == qpc \in { "balances", "nouveaux written" }

\* C23: the dict that get_balances returns has for keys the leaf accounts
\* of the book that have a balance other than 0 and a name that starts
\* with none of 6, 7 and 129.
C23_KeysOfBalances ==
    BalancesReturned =>
        DOMAIN account_balances =
            { n \in DOMAIN gnucash :
                /\ ~gnucash[n].children
                /\ gnucash[n].balance # 0
                /\ ~StartsWith(n, 6)
                /\ ~StartsWith(n, 7)
                /\ ~StartsWith(n, 129) }

\* the sum of the balances of the dict
SumOfBalances(d) == SumOver(d, DOMAIN d)

\* C24: once get_balances is over, it has returned a dict exactly when the
\* balances it kept sum to the result of get_result; the sum of the dict it
\* returned is that result, a QIF is written only after it returned, and
\* after the raise there is no dict and no QIF.
C24_BalancedOrRaised ==
    /\ qpc \in { "balances", "nouveaux written", "BaseException" } =>
          (qpc = "BaseException" <=> solde_of(gnucash) # get_result(gnucash))
    /\ BalancesReturned => SumOfBalances(account_balances) = get_result(gnucash)
    /\ qpc = "nouveaux written" => qif # NoQif
    /\ qpc \in { "nouveaux", "balances", "BaseException" } => qif = NoQif
    /\ qpc = "BaseException" => account_balances = << >>

\* a book with a result of 100.00 whose balances were returned and written
C24_Witness ==
    /\ qpc = "nouveaux written"
    /\ get_result(gnucash) = 1000000
    /\ Str(512) \in DOMAIN account_balances
    /\ Len(qif) > 5

\* the places of the QIF whose line has the tag
LinesWithTag(q, tag) == { i \in DOMAIN q : q[i].tag = tag }

\* the T line at place i has its $ line after it in the same entry, with
\* the opposite amount
SplitNegatesTotal(q, i) ==
    \E j \in LinesWithTag(q, "$") :
        /\ j > i
        /\ \A k \in (i + 1)..(j - 1) : q[k].tag \notin { "^", "T", "$" }
        /\ q[j].value = -q[i].value

\* the rows with an amount other than 0
RowsWithAmount(rows) == { i \in DOMAIN rows : rows[i].amount # 0 }

\* C29: in the QIF of each of the three scripts every T line has its $
\* line with the opposite amount and there are as many $ lines as T lines;
\* the QIF of ffa_qif and of ha_qif has one entry for each row with an
\* amount other than 0 and none with T0.
C29_EntriesBalanced ==
    qpc \in { "nouveaux written", "ffa qif", "ha qif" } =>
        /\ \A i \in LinesWithTag(qif, "T") : SplitNegatesTotal(qif, i)
        /\ Cardinality(LinesWithTag(qif, "$")) = Cardinality(LinesWithTag(qif, "T"))
        /\ qpc \in { "ffa qif", "ha qif" } =>
              /\ Cardinality(LinesWithTag(qif, "T"))
                    = Cardinality(RowsWithAmount(data_view))
              /\ \A i \in LinesWithTag(qif, "T") : qif[i].value # 0

\* the QIF of a Helloasso download of a row of 100.00 and a row of 0
C29_Witness ==
    /\ qpc = "ha qif"
    /\ Len(data_view) = 2
    /\ Cardinality(RowsWithAmount(data_view)) = 1
    /\ \E i \in LinesWithTag(qif, "T") : qif[i].value = 1000000
    /\ \E j \in LinesWithTag(qif, "$") : qif[j].value = -1000000

\* the row is a donation
IsDon(row) == row.Type = "Don unique"

\* the config has a sub-description of the description of the row that is
\* the one of the row
HasSubDescription(ha_conf, row) ==
    /\ row.description \in DOMAIN ha_conf
    /\ "subdescr" \in ha_conf[row.description].keys
    /\ row.sub_description \in DOMAIN ha_conf[row.description].subdescr

\* the config has a default for the description of the row
HasDefault(ha_conf, row) ==
    /\ row.description \in DOMAIN ha_conf
    /\ "default" \in ha_conf[row.description].keys

\* C30: a row that has its account has 746_Dons if it is a donation, else
\* the account of its sub-description if the config has one, else the
\* default of its description; a row that is no donation and whose
\* description is not in the config, or has neither the sub-description nor
\* a default, gets no account and the run ends with status 1 on it.
C30_FindAccountPrecedence ==
    /\ \A i \in 1..row_index :
          LET row == data[i]
          IN  /\ IsDon(row) => row.account = "746_Dons"
              /\ ~IsDon(row) =>
                    /\ row.description \in DOMAIN ha_config
                    /\ HasSubDescription(ha_config, row) \/ HasDefault(ha_config, row)
                    /\ HasSubDescription(ha_config, row) =>
                          row.account =
                             ha_config[row.description].subdescr[row.sub_description]
                    /\ ~HasSubDescription(ha_config, row) =>
                          row.account = ha_config[row.description].default
    /\ qpc = "exit 1" =>
          /\ row_index < Len(data)
          /\ ~IsDon(data[row_index + 1])
          /\ ~HasSubDescription(ha_config, data[row_index + 1])
          /\ ~HasDefault(ha_config, data[row_index + 1])
    /\ qpc \in { "ha view", "ha qif" } =>
          /\ row_index = Len(data)
          /\ \A i \in DOMAIN data : data[i].account # ""

\* a row that is no donation, with a sub-description that the config has
\* beside a default, has the account of the sub-description
C30_Witness ==
    /\ qpc = "ha view"
    /\ \E i \in DOMAIN data :
          /\ ~IsDon(data[i])
          /\ HasSubDescription(ha_config, data[i])
          /\ HasDefault(ha_config, data[i])
          /\ data[i].account = "7562_Cotisations enfants"

====
